---- MODULE Spec2Model ----
(***************************************************************************)
(* Model of the Wayland WSI layer of src/vulkan/wsi/wsi_common_wayland.c:  *)
(* the per-surface dma-buf feedback state machine and the swapchain image  *)
(* lifecycle (acquire / present / release / frame callback).               *)
(*                                                                         *)
(* The specifications share the variables:                                 *)
(*   SpecFeedback   the seven zwp_linux_dmabuf_feedback_v1 handlers of a   *)
(*                  surface plus swapchain creation on that surface;       *)
(*   SpecSwapchain  one swapchain with its application thread, the peer    *)
(*                  (compositor) and the monotonic clock;                  *)
(*   SpecSwapchainFeedback  such a swapchain while feedback is committed;   *)
(*   SpecCatalog    a format catalog under insertions;                     *)
(*   SpecLifecycle  creation and destruction of the swapchains of a        *)
(*                  surface, with the failures of each step;               *)
(*   SpecDisplay    a display connection through wsi_wl_display_init, for  *)
(*                  each of its callers.                                   *)
(* Heap allocation is taken to succeed in the first three (u_vector_add    *)
(* and util_dynarray_append never return NULL there).                      *)
(***************************************************************************)
EXTENDS Integers, Sequences, FiniteSets, TLC

VARIABLES
    cur,              \* wsi_wl_surface.dmabuf_feedback (committed)
    pend,             \* wsi_wl_surface.pending_dmabuf_feedback
    display_formats,  \* wsi_wl_display.formats
    chain,            \* the wsi_wl_swapchain owning the surface
    images,           \* wsi_wl_swapchain.images[]
    pc,               \* position of the application thread
    call,             \* locals of the call the thread is in
    now,              \* CLOCK_MONOTONIC
    wire,             \* events sent by the peer, not yet read from the fd
    queue,            \* events read into the display's queue, not dispatched
    peer,             \* what the compositor holds
    surface,          \* the wsi_wl_surface: display, proxy, feedback object, chain
    chains,           \* every wsi_wl_swapchain allocated on the surface so far
    display,          \* a wsi_wl_display inside or after wsi_wl_display_init
    ev,               \* the handler or step that ran last, with its inputs
    obs,              \* history of the feedback events, read by the properties
    mon               \* history of the swapchain calls, read by the properties

vars == <<cur, pend, display_formats, chain, images, pc, call, now, wire,
          queue, peer, surface, chains, display, ev, obs, mon>>

\* The objects whose creation and destruction SpecLifecycle follows; the
\* other specifications leave them as they are.
lcVars == <<surface, chains>>

\* The display connection SpecDisplay follows through its initialisation.
dpVars == <<display>>

rtVars == <<images, pc, call, now, wire, queue, peer, mon, lcVars, dpVars>>

(***************************************************************************)
(* Bounds of the model                                                     *)
(***************************************************************************)
\* Events of each kind the peer sends in one run.
MaxTableEvents == 1
MaxTrancheDone == 2
MaxDone == 2

(***************************************************************************)
(* Formats and modifiers                                                   *)
(***************************************************************************)
WSI_WL_FMT_ALPHA == 1
WSI_WL_FMT_OPAQUE == 2

\* f->flags |= flags on the two-bit flag word
FlagsOr(a, b) ==
    LET bit(x, k) == (x \div k) % 2
        or(k) == IF bit(a, k) = 1 \/ bit(b, k) = 1 THEN k ELSE 0
    IN or(1) + or(2)

DRM_FORMAT_MOD_INVALID == "MOD_INVALID"
VK_FORMAT_UNDEFINED == "VK_FORMAT_UNDEFINED"

AO == FlagsOr(WSI_WL_FMT_ALPHA, WSI_WL_FMT_OPAQUE)

\* The switch of wsi_wl_display_add_drm_format_modifier (little endian):
\* the (VkFormat, flags) insertions a DRM format makes, in order.
DrmToVk(drm_format) ==
    CASE drm_format = "RGBA4444" -> << <<"R4G4B4A4_UNORM_PACK16", WSI_WL_FMT_ALPHA>> >>
      [] drm_format = "RGBX4444" -> << <<"R4G4B4A4_UNORM_PACK16", WSI_WL_FMT_OPAQUE>> >>
      [] drm_format = "BGRA4444" -> << <<"B4G4R4A4_UNORM_PACK16", WSI_WL_FMT_ALPHA>> >>
      [] drm_format = "BGRX4444" -> << <<"B4G4R4A4_UNORM_PACK16", WSI_WL_FMT_OPAQUE>> >>
      [] drm_format = "RGB565" -> << <<"R5G6B5_UNORM_PACK16", AO>> >>
      [] drm_format = "BGR565" -> << <<"B5G6R5_UNORM_PACK16", AO>> >>
      [] drm_format = "ARGB1555" -> << <<"A1R5G5B5_UNORM_PACK16", WSI_WL_FMT_ALPHA>> >>
      [] drm_format = "XRGB1555" -> << <<"A1R5G5B5_UNORM_PACK16", WSI_WL_FMT_OPAQUE>> >>
      [] drm_format = "RGBA5551" -> << <<"R5G5B5A1_UNORM_PACK16", WSI_WL_FMT_ALPHA>> >>
      [] drm_format = "RGBX5551" -> << <<"R5G5B5A1_UNORM_PACK16", WSI_WL_FMT_OPAQUE>> >>
      [] drm_format = "BGRA5551" -> << <<"B5G5R5A1_UNORM_PACK16", WSI_WL_FMT_ALPHA>> >>
      [] drm_format = "BGRX5551" -> << <<"B5G5R5A1_UNORM_PACK16", WSI_WL_FMT_OPAQUE>> >>
      [] drm_format = "ARGB2101010" -> << <<"A2R10G10B10_UNORM_PACK32", WSI_WL_FMT_ALPHA>> >>
      [] drm_format = "XRGB2101010" -> << <<"A2R10G10B10_UNORM_PACK32", WSI_WL_FMT_OPAQUE>> >>
      [] drm_format = "ABGR2101010" -> << <<"A2B10G10R10_UNORM_PACK32", WSI_WL_FMT_ALPHA>> >>
      [] drm_format = "XBGR2101010" -> << <<"A2B10G10R10_UNORM_PACK32", WSI_WL_FMT_OPAQUE>> >>
      [] drm_format = "XBGR8888" -> << <<"R8G8B8_SRGB", AO>>, <<"R8G8B8_UNORM", AO>>,
                                       <<"R8G8B8A8_SRGB", WSI_WL_FMT_OPAQUE>>,
                                       <<"R8G8B8A8_UNORM", WSI_WL_FMT_OPAQUE>> >>
      [] drm_format = "ABGR8888" -> << <<"R8G8B8A8_SRGB", WSI_WL_FMT_ALPHA>>,
                                       <<"R8G8B8A8_UNORM", WSI_WL_FMT_ALPHA>> >>
      [] drm_format = "XRGB8888" -> << <<"B8G8R8_SRGB", AO>>, <<"B8G8R8_UNORM", AO>>,
                                       <<"B8G8R8A8_SRGB", WSI_WL_FMT_OPAQUE>>,
                                       <<"B8G8R8A8_UNORM", WSI_WL_FMT_OPAQUE>> >>
      [] drm_format = "ARGB8888" -> << <<"B8G8R8A8_SRGB", WSI_WL_FMT_ALPHA>>,
                                       <<"B8G8R8A8_UNORM", WSI_WL_FMT_ALPHA>> >>
      [] OTHER -> << >>

\* VkFormats whose optimalTilingFeatures lack COLOR_ATTACHMENT on the modelled
\* device (the answer of GetPhysicalDeviceFormatProperties).
NotRenderable == {"R8G8B8_SRGB", "R8G8B8_UNORM", "B8G8R8_SRGB", "B8G8R8_UNORM",
                  "B8G8R8A8_SRGB"}

\* A lookup that never finds an entry.
NeverFound(formats, format) == 0

\* find_format: index of the entry of a format vector with that VkFormat, 0 for NULL
find_format(formats, format) ==
    IF \E i \in 1..Len(formats) : formats[i].vk_format = format
    THEN CHOOSE i \in 1..Len(formats) :
            /\ formats[i].vk_format = format
            /\ \A j \in 1..(i - 1) : formats[j].vk_format # format
    ELSE 0

\* An insertion that stores whatever modifier it is given, once.
StoreAnyModifier(modifiers, modifier) ==
    IF \E i \in 1..Len(modifiers) : modifiers[i] = modifier THEN modifiers
    ELSE Append(modifiers, modifier)

\* wsi_wl_format_add_modifier on a modifier vector
wsi_wl_format_add_modifier(modifiers, modifier) ==
    IF modifier = DRM_FORMAT_MOD_INVALID THEN modifiers
    ELSE IF \E i \in 1..Len(modifiers) : modifiers[i] = modifier THEN modifiers
    ELSE Append(modifiers, modifier)

\* wsi_wl_display_add_vk_format followed by wsi_wl_format_add_modifier
\* (wsi_wl_display_add_vk_format_modifier) for a device on which the formats
\* of unrenderable lack COLOR_ATTACHMENT.
AddVkFormatModifierOn(unrenderable, formats, vk_format, flags, modifier) ==
    LET i == find_format(formats, vk_format) IN
    IF i # 0
    THEN [formats EXCEPT ![i] =
            [@ EXCEPT !.flags = FlagsOr(@, flags),
                      !.modifiers = wsi_wl_format_add_modifier(@, modifier)]]
    ELSE IF vk_format \in unrenderable THEN formats
    ELSE Append(formats,
                [vk_format |-> vk_format, flags |-> flags,
                 modifiers |-> wsi_wl_format_add_modifier(<< >>, modifier)])

\* wsi_wl_display_add_vk_format_modifier on the modelled device
wsi_wl_display_add_vk_format_modifier(formats, vk_format, flags, modifier) ==
    AddVkFormatModifierOn(NotRenderable, formats, vk_format, flags, modifier)

RECURSIVE AddVkListOn(_, _, _, _)
AddVkListOn(unrenderable, formats, list, modifier) ==
    IF list = << >> THEN formats
    ELSE AddVkListOn(unrenderable,
                     AddVkFormatModifierOn(unrenderable, formats,
                                           Head(list)[1], Head(list)[2],
                                           modifier),
                     Tail(list), modifier)

RECURSIVE AddVkList(_, _, _)
AddVkList(formats, list, modifier) ==
    IF list = << >> THEN formats
    ELSE AddVkList(wsi_wl_display_add_vk_format_modifier(
                       formats, Head(list)[1], Head(list)[2], modifier),
                   Tail(list), modifier)

wsi_wl_display_add_drm_format_modifier(formats, drm_format, modifier) ==
    AddVkList(formats, DrmToVk(drm_format), modifier)

\* wl_drm_format_for_vk_format (little endian): the DRM format a swapchain
\* of that VkFormat announces for its buffers.
wl_drm_format_for_vk_format(vk_format, alpha) ==
    CASE vk_format = "R4G4B4A4_UNORM_PACK16" ->
            IF alpha THEN "RGBA4444" ELSE "RGBX4444"
      [] vk_format = "B4G4R4A4_UNORM_PACK16" ->
            IF alpha THEN "BGRA4444" ELSE "BGRX4444"
      [] vk_format = "R5G6B5_UNORM_PACK16" -> "RGB565"
      [] vk_format = "B5G6R5_UNORM_PACK16" -> "BGR565"
      [] vk_format = "A1R5G5B5_UNORM_PACK16" ->
            IF alpha THEN "ARGB1555" ELSE "XRGB1555"
      [] vk_format = "R5G5B5A1_UNORM_PACK16" ->
            IF alpha THEN "RGBA5551" ELSE "RGBX5551"
      [] vk_format = "B5G5R5A1_UNORM_PACK16" ->
            IF alpha THEN "BGRA5551" ELSE "BGRX5551"
      [] vk_format = "A2R10G10B10_UNORM_PACK32" ->
            IF alpha THEN "ARGB2101010" ELSE "XRGB2101010"
      [] vk_format = "A2B10G10R10_UNORM_PACK32" ->
            IF alpha THEN "ABGR2101010" ELSE "XBGR2101010"
      [] vk_format \in {"R8G8B8_UNORM", "R8G8B8_SRGB"} -> "XBGR8888"
      [] vk_format \in {"R8G8B8A8_UNORM", "R8G8B8A8_SRGB"} ->
            IF alpha THEN "ABGR8888" ELSE "XBGR8888"
      [] vk_format \in {"B8G8R8_UNORM", "B8G8R8_SRGB"} -> "BGRX8888"
      [] vk_format \in {"B8G8R8A8_UNORM", "B8G8R8A8_SRGB"} ->
            IF alpha THEN "ARGB8888" ELSE "XRGB8888"
      [] OTHER -> "DRM_FORMAT_INVALID"

\* drm_format_for_wl_shm_format: wl_shm formats are the DRM formats except
\* for the two that wl_shm numbers 0 and 1.
drm_format_for_wl_shm_format(shm_format) ==
    CASE shm_format = "WL_SHM_FORMAT_ARGB8888" -> "ARGB8888"
      [] shm_format = "WL_SHM_FORMAT_XRGB8888" -> "XRGB8888"
      [] OTHER -> shm_format

wsi_wl_display_add_wl_shm_format(formats, shm_format) ==
    wsi_wl_display_add_drm_format_modifier(
        formats, drm_format_for_wl_shm_format(shm_format),
        DRM_FORMAT_MOD_INVALID)

(***************************************************************************)
(* Format tables (struct dmabuf_feedback_format_table)                     *)
(***************************************************************************)
\* The contents of the shared-memory tables the peer may send: arrays of
\* (format, modifier) records.
TableData ==
    << << [format |-> "ARGB8888", modifier |-> "M1"],
          [format |-> "ARGB8888", modifier |-> "M2"],
          [format |-> "RGB565", modifier |-> DRM_FORMAT_MOD_INVALID] >>,
       << [format |-> "ARGB8888", modifier |-> "M2"],
          [format |-> "ARGB8888", modifier |-> "M1"] >> >>

TableIds == 1..Len(TableData)

\* What a read past the end of the mapping may return.
GarbageRecords == { [format |-> "ARGB8888", modifier |-> "M3"],
                    [format |-> "GARBAGE", modifier |-> "M3"] }

\* dmabuf_feedback_format_table_init: data = NULL, size = 0
NullTable == [data |-> "NULL", tbl |-> 0]
FailedTable == [data |-> "MAP_FAILED", tbl |-> 0]
MappedTable(k) == [data |-> "MAPPED", tbl |-> k]

\* The index arrays a tranche_formats event may carry.
IndexArrays == { <<0, 1>>, <<2>> }

\* The records format_table.data[index] may yield for each index of the
\* array: the record, or anything when the index is past the mapping.
ReadRecord(table, index) ==
    IF index < Len(TableData[table.tbl]) THEN { TableData[table.tbl][index + 1] }
    ELSE GarbageRecords

\* The catalogs the loop of surface_dmabuf_feedback_tranche_formats may leave
\* after resolving every index of the array through the table.
RECURSIVE ResolveIndices(_, _, _)
ResolveIndices(formats, table, indices) ==
    IF indices = << >> THEN { formats }
    ELSE UNION { ResolveIndices(
                     wsi_wl_display_add_drm_format_modifier(formats, r.format, r.modifier),
                     table, Tail(indices)) : r \in ReadRecord(table, Head(indices)) }

(***************************************************************************)
(* struct dmabuf_feedback and its tranches                                 *)
(***************************************************************************)
\* dmabuf_feedback_tranche_init
EmptyTranche == [target_device |-> 0, flags |-> 0, formats |-> << >>]

\* dmabuf_feedback_init
InitFeedback ==
    [main_device |-> 0, format_table |-> NullTable, tranches |-> << >>,
     pending_tranche |-> EmptyTranche]

\* A lookup that searches the tranches whatever main_device is.
PickIgnoringMainDevice(fb, vk_format) ==
    IF \E t \in 1..Len(fb.tranches) : find_format(fb.tranches[t].formats, vk_format) # 0
    THEN LET t == CHOOSE t \in 1..Len(fb.tranches) :
                     /\ find_format(fb.tranches[t].formats, vk_format) # 0
                     /\ \A u \in 1..(t - 1) :
                            find_format(fb.tranches[u].formats, vk_format) = 0
         IN <<t, find_format(fb.tranches[t].formats, vk_format)>>
    ELSE <<0, 0>>

\* pick_format_from_surface_dmabuf_feedback: <<tranche index, entry index>>
\* of the entry found, <<0, 0>> for NULL
pick_format_from_surface_dmabuf_feedback(fb, vk_format) ==
    IF fb.main_device = 0 THEN <<0, 0>>
    ELSE IF \E t \in 1..Len(fb.tranches) : find_format(fb.tranches[t].formats, vk_format) # 0
    THEN LET t == CHOOSE t \in 1..Len(fb.tranches) :
                     /\ find_format(fb.tranches[t].formats, vk_format) # 0
                     /\ \A u \in 1..(t - 1) :
                            find_format(fb.tranches[u].formats, vk_format) = 0
         IN <<t, find_format(fb.tranches[t].formats, vk_format)>>
    ELSE <<0, 0>>

\* sets_of_modifiers_are_the_same
sets_of_modifiers_are_the_same(modifiers_A, modifiers_B) ==
    /\ Len(modifiers_A) = Len(modifiers_B)
    /\ \A i \in 1..Len(modifiers_A) :
          \E j \in 1..Len(modifiers_B) : modifiers_A[i] = modifiers_B[j]

\* A tranche_formats handler that leaves the committed feedback's table alone.
NoSteal(c, p) == << c, p >>

\* Lines 1221-1224: a pending feedback without a table takes the committed
\* feedback's table, which is left initialised (NULL). <<cur, pend>> after.
StealFormatTable(c, p) ==
    IF p.format_table.data = "NULL"
    THEN << [c EXCEPT !.format_table = NullTable],
            [p EXCEPT !.format_table = c.format_table] >>
    ELSE << c, p >>

(***************************************************************************)
(* The swapchain (struct wsi_wl_swapchain)                                 *)
(***************************************************************************)
\* chain->drm_modifiers is a pointer into a modifier vector: ref says whose
\* ("NULL", "display": an entry of display->formats, "feedback": an entry of
\* the committed surface feedback, "freed": storage that was released), vals
\* what the vector held when the pointer was taken.
NullModifiers == [ref |-> "NULL", vals |-> << >>]

\* What a read through a dangling modifier pointer may return.
DanglingValues == {"M1", "M2", "M3"}

\* The lists a read of chain->drm_modifiers[0..num_drm_modifiers) may yield.
ReadDrmModifiers(c) ==
    IF c.drm_modifiers.ref = "freed"
    THEN [1..c.num_drm_modifiers -> DanglingValues]
    ELSE { c.drm_modifiers.vals }

\* The chain right after vk_zalloc (line 1746).
ZeroChain ==
    [vk_format |-> VK_FORMAT_UNDEFINED, buffer_type |-> "NATIVE",
     suboptimal |-> FALSE, num_drm_modifiers |-> 0,
     drm_modifiers |-> NullModifiers, present_mode |-> "MAILBOX",
     fifo_ready |-> FALSE, frame |-> FALSE, image_count |-> 0]

\* The VkFormat the application asks its swapchains for.
AppFormats == {"B8G8R8A8_UNORM"}

\* Lines 1772-1819 and 1828-1847 of wsi_wl_surface_create_swapchain on the
\* native (non-software) path, the surface being bound to dma-buf feedback:
\* the modifier list is taken from the committed surface feedback, else from
\* the display's catalog.
NewChain(fb, dformats, imageFormat, supports_modifiers, present_mode, num_images) ==
    LET p == pick_format_from_surface_dmabuf_feedback(fb, imageFormat)
        d == find_format(dformats, imageFormat)
        mods == IF ~supports_modifiers THEN NullModifiers
                ELSE IF p[1] # 0
                THEN [ref |-> "feedback",
                      vals |-> fb.tranches[p[1]].formats[p[2]].modifiers]
                ELSE IF d # 0
                THEN [ref |-> "display", vals |-> dformats[d].modifiers]
                ELSE NullModifiers
    IN [ZeroChain EXCEPT !.vk_format = imageFormat,
                         !.buffer_type = "NATIVE",
                         !.num_drm_modifiers = Len(mods.vals),
                         !.drm_modifiers = mods,
                         !.present_mode = present_mode,
                         !.image_count = num_images,
                         !.fifo_ready = TRUE]

(***************************************************************************)
(* The surface feedback listener (surface_dmabuf_feedback_listener)        *)
(***************************************************************************)
\* A tranche_done that closes the tranche and goes on accumulating in it.
TrancheDoneKeepsTranche(p) ==
    [p EXCEPT !.tranches = Append(@, p.pending_tranche)]

\* surface_dmabuf_feedback_tranche_done on the pending feedback
TrancheDoneState(p) ==
    [p EXCEPT !.tranches = Append(@, p.pending_tranche),
              !.pending_tranche = EmptyTranche]

\* A commit that also publishes the tranche still being accumulated.
CommitWithOpenTranche(c, p) ==
    << [p EXCEPT !.tranches = Append(@, p.pending_tranche)], InitFeedback >>

\* Lines 1286-1288 of surface_dmabuf_feedback_done: <<cur, pend>> after
CommitState(c, p) == << p, InitFeedback >>

\* Whether the table of a feedback can be read (line 1225)
TableUsable(fb) == fb.format_table.data = "MAPPED"

\* The indices whose records the loop of a tranche_formats handler reads
\* through the table of a feedback (lines 1229-1231, 670-672): every index of
\* the array once the table is mapped, whatever its value.
IndicesRead(fb, indices) ==
    IF fb.format_table.data = "MAPPED" THEN indices ELSE << >>

\* A handler that reads through the table pointer whatever it is.
TrancheFormatsUnchecked(c, p, indices) ==
    LET st == StealFormatTable(c, p)
        table == IF st[2].format_table.data = "MAPPED"
                 THEN st[2].format_table ELSE MappedTable(1)
    IN { << st[1], [st[2] EXCEPT !.pending_tranche.formats = fs] >> :
           fs \in ResolveIndices(st[2].pending_tranche.formats, table,
                                 indices) }

\* The <<cur, pend>> pairs surface_dmabuf_feedback_tranche_formats may leave.
TrancheFormatsStates(c, p, indices) ==
    LET st == StealFormatTable(c, p) IN
    IF ~TableUsable(st[2]) THEN { st }
    ELSE { << st[1], [st[2] EXCEPT !.pending_tranche.formats = fs] >> :
             fs \in ResolveIndices(st[2].pending_tranche.formats,
                                   st[2].format_table, indices) }

\* History kept for the properties: whether this cycle had a format_table
\* event, the most recent table event's result (0 none, -1 mapping failed),
\* the usable table the last committed cycle received (0 none), the tranches
\* closed by tranche_done in this cycle, what the last done committed, the
\* number of events of each bounded kind so far, where the peer is in the
\* cycle and in the tranche, and what the committed feedback held for the
\* swapchain's format when the swapchain was created (alloc).
InitObs ==
    [cyc_table |-> FALSE, last_table |-> 0, prev_recv |-> 0,
     closed |-> << >>, committed |-> << >>,
     ntab |-> 0, ntd |-> 0, ndone |-> 0,
     stage |-> "start", tstage |-> "start",
     alloc |-> [found |-> FALSE, modifiers |-> << >>]]

\* The peer sends the events of a cycle in the protocol's order: format_table
\* (0 or 1), main_device (0 or 1), then per tranche tranche_target_device,
\* tranche_flags, tranche_formats (0 or 1, an array of indices), tranche_done;
\* done ends the cycle and may come at any point of it.
StageOrder == [start |-> 0, table |-> 1, main |-> 2, tranche |-> 3]

surface_dmabuf_feedback_format_table ==
    \E k \in TableIds, ok \in BOOLEAN :
        /\ obs.ntab < MaxTableEvents
        /\ obs.stage = "start"
        /\ pend' = [pend EXCEPT !.format_table =
                        IF ok THEN MappedTable(k) ELSE FailedTable]
        /\ ev' = [type |-> "format_table", arg |-> IF ok THEN k ELSE -1]
        /\ obs' = [obs EXCEPT !.cyc_table = TRUE,
                              !.last_table = IF ok THEN k ELSE -1,
                              !.ntab = @ + 1,
                              !.stage = "table"]
        /\ UNCHANGED <<cur, display_formats, chain, rtVars>>

surface_dmabuf_feedback_main_device ==
    /\ StageOrder[obs.stage] < StageOrder["main"]
    /\ pend' = [pend EXCEPT !.main_device = 1]
    /\ ev' = [type |-> "main_device", arg |-> 1]
    /\ obs' = [obs EXCEPT !.stage = "main"]
    /\ UNCHANGED <<cur, display_formats, chain, rtVars>>

surface_dmabuf_feedback_tranche_target_device ==
    /\ obs.tstage = "start"
    /\ pend' = [pend EXCEPT !.pending_tranche.target_device = 1]
    /\ ev' = [type |-> "tranche_target_device", arg |-> 1]
    /\ obs' = [obs EXCEPT !.stage = "tranche", !.tstage = "target"]
    /\ UNCHANGED <<cur, display_formats, chain, rtVars>>

surface_dmabuf_feedback_tranche_flags ==
    /\ obs.tstage = "target"
    /\ pend' = [pend EXCEPT !.pending_tranche.flags = 1]
    /\ ev' = [type |-> "tranche_flags", arg |-> 1]
    /\ obs' = [obs EXCEPT !.tstage = "flags"]
    /\ UNCHANGED <<cur, display_formats, chain, rtVars>>

surface_dmabuf_feedback_tranche_formats ==
    \E indices \in IndexArrays :
        /\ obs.tstage = "flags"
        /\ \E st \in TrancheFormatsStates(cur, pend, indices) :
              /\ cur' = st[1]
              /\ pend' = st[2]
              /\ ev' = [type |-> "tranche_formats", arg |-> indices,
                        read |-> IndicesRead(st[2], indices)]
        /\ obs' = [obs EXCEPT !.tstage = "formats"]
        /\ UNCHANGED <<display_formats, chain, rtVars>>

surface_dmabuf_feedback_tranche_done ==
    /\ obs.ntd < MaxTrancheDone
    /\ obs.tstage \in {"flags", "formats"}
    /\ pend' = TrancheDoneState(pend)
    /\ ev' = [type |-> "tranche_done", arg |-> 0]
    /\ obs' = [obs EXCEPT !.closed = Append(@, pend.pending_tranche),
                          !.ntd = @ + 1, !.tstage = "start"]
    /\ UNCHANGED <<cur, display_formats, chain, rtVars>>

\* dmabuf_feedback_fini(&wsi_wl_surface->dmabuf_feedback) releases every
\* modifier vector of the committed feedback: a chain whose drm_modifiers
\* points into one is left with a dangling pointer.
ChainAfterFini(c) ==
    IF c.drm_modifiers.ref = "feedback"
    THEN [c EXCEPT !.drm_modifiers.ref = "freed"]
    ELSE c

\* A commit that assigns the result of the comparison to the flag.
AssignSuboptimal(c, same) == [c EXCEPT !.suboptimal = ~same]

\* Lines 1305-1310: the flag is set when the sets differ, never cleared.
MarkSuboptimal(c, same) == [c EXCEPT !.suboptimal = @ \/ ~same]

surface_dmabuf_feedback_done ==
    LET st == CommitState(cur, pend)
        c1 == ChainAfterFini(chain)
        f == pick_format_from_surface_dmabuf_feedback(st[1], c1.vk_format)
    IN /\ obs.ndone < MaxDone
       /\ cur' = st[1]
       /\ pend' = st[2]
       /\ IF f[1] # 0
          THEN \E B \in ReadDrmModifiers(c1) :
                 chain' = MarkSuboptimal(c1,
                     sets_of_modifiers_are_the_same(
                         st[1].tranches[f[1]].formats[f[2]].modifiers, B))
          ELSE chain' = c1
       /\ ev' = [type |-> "done", arg |-> 0]
       /\ obs' = [obs EXCEPT !.cyc_table = FALSE,
                             !.prev_recv = IF obs.cyc_table /\ obs.last_table > 0
                                           THEN obs.last_table ELSE 0,
                             !.closed = << >>,
                             !.committed = obs.closed,
                             !.ndone = @ + 1,
                             !.stage = "start", !.tstage = "start"]
       /\ UNCHANGED <<display_formats, rtVars>>

\* wsi_wl_surface_create_swapchain on the surface, which stays bound to its
\* feedback; the new chain takes the surface from the one before it. The
\* call reads the committed feedback only, so a call made in the middle of a
\* cycle leaves what a call made before the cycle's first event leaves: the
\* application calls between cycles here.
wsi_wl_surface_create_swapchain ==
    \E imageFormat \in AppFormats, supports_modifiers \in BOOLEAN :
        /\ obs.stage = "start" /\ obs.tstage = "start"
        /\ chain' = NewChain(cur, display_formats, imageFormat,
                             supports_modifiers, "MAILBOX", 0)
        /\ ev' = [type |-> "create_swapchain", arg |-> imageFormat]
        /\ obs' = [obs EXCEPT !.alloc =
                      LET p == pick_format_from_surface_dmabuf_feedback(
                                   cur, imageFormat)
                      IN IF p[1] = 0
                         THEN [found |-> FALSE, modifiers |-> << >>]
                         ELSE [found |-> TRUE,
                               modifiers |->
                                  cur.tranches[p[1]].formats[p[2]].modifiers]]
        /\ UNCHANGED <<cur, pend, display_formats, rtVars>>

\* The catalogs a display connection may hold after wsi_wl_display_init.
DisplayCatalogs ==
    { wsi_wl_display_add_drm_format_modifier(
          wsi_wl_display_add_drm_format_modifier(<< >>, "ARGB8888", "M1"),
          "RGB565", "M1") }

\* The surface inside its first wsi_wl_surface_create_swapchain, bound to
\* its feedback (wsi_wl_surface_bind_to_dmabuf_feedback) and about to
\* dispatch the first events: the chain is still zeroed.
InitFeedbackSpec ==
    /\ cur = InitFeedback
    /\ pend = InitFeedback
    /\ display_formats \in DisplayCatalogs
    /\ chain = ZeroChain
    /\ images = << >>
    /\ pc = "idle"
    /\ call = << >>
    /\ now = 0
    /\ wire = << >>
    /\ queue = << >>
    /\ peer = << >>
    /\ surface = << >>
    /\ chains = << >>
    /\ display = << >>
    /\ ev = [type |-> "init", arg |-> 0]
    /\ obs = InitObs
    /\ mon = << >>

NextFeedback ==
    \/ surface_dmabuf_feedback_format_table
    \/ surface_dmabuf_feedback_main_device
    \/ surface_dmabuf_feedback_tranche_target_device
    \/ surface_dmabuf_feedback_tranche_flags
    \/ surface_dmabuf_feedback_tranche_formats
    \/ surface_dmabuf_feedback_tranche_done
    \/ surface_dmabuf_feedback_done
    \/ wsi_wl_surface_create_swapchain

SpecFeedback == InitFeedbackSpec /\ [][NextFeedback]_vars

(***************************************************************************)
(* The swapchain at run time: acquire, present, release, frame callback    *)
(***************************************************************************)
\* Bounds of the run-time model: images of the swapchain, calls the
\* application makes in one run, the last clock value, the longest timeout.
MaxImages == 4
MaxCalls == 5
MaxTime == 3
MaxTimeout == 1

\* Events of the display's queue
ReleaseEvent(i) == [kind |-> "release", image |-> i]
FrameDoneEvent == [kind |-> "frame_done", image |-> -1]

\* A release notification that leaves the image busy.
ReleaseKeepsBusy(imgs, i) == imgs

\* buffer_handle_release on image i (0-based) of chain->images
buffer_handle_release(imgs, i) == [imgs EXCEPT ![i + 1].busy = FALSE]

\* A frame callback that does not make the chain ready.
FrameDoneNotReady(c) == [c EXCEPT !.frame = FALSE]

\* frame_handle_done
frame_handle_done(c) == [c EXCEPT !.frame = FALSE, !.fifo_ready = TRUE]

\* A dispatcher whose frame callback also frees every image.
DispatchFrameFreesImages(st, e) ==
    IF e.kind = "release"
    THEN [st EXCEPT !.images = buffer_handle_release(@, e.image)]
    ELSE [images |-> [i \in 1..Len(st.images) |-> [busy |-> FALSE]],
          chain |-> frame_handle_done(st.chain)]

\* The listener an event of the queue runs (buffer_listener, frame_listener)
\* on st = [images, chain].
DispatchEvent(st, e) ==
    IF e.kind = "release"
    THEN [st EXCEPT !.images = buffer_handle_release(@, e.image)]
    ELSE [st EXCEPT !.chain = frame_handle_done(@)]

\* wl_display_dispatch_queue_pending: every queued event's listener, in order
RECURSIVE DispatchEvents(_, _)
DispatchEvents(st, events) ==
    IF events = << >> THEN st
    ELSE DispatchEvents(DispatchEvent(st, Head(events)), Tail(events))

\* The images whose release notification is among the events
ReleasedBy(events) ==
    { events[k].image : k \in { n \in 1..Len(events) : events[n].kind = "release" } }

\* The number of frame callbacks among the events
RECURSIVE FrameDones(_)
FrameDones(events) ==
    IF events = << >> THEN 0
    ELSE (IF Head(events).kind = "frame_done" THEN 1 ELSE 0) + FrameDones(Tail(events))

\* A scan that takes the last free image.
LastFree(imgs) ==
    IF \E i \in 1..Len(imgs) : ~imgs[i].busy
    THEN (CHOOSE i \in 1..Len(imgs) :
             ~imgs[i].busy /\ \A j \in (i + 1)..Len(imgs) : imgs[j].busy) - 1
    ELSE -1

\* The loop of lines 1451-1458: the first index whose image is not busy,
\* -1 when the loop ends without one.
FirstFree(imgs) ==
    IF \E i \in 1..Len(imgs) : ~imgs[i].busy
    THEN (CHOOSE i \in 1..Len(imgs) :
             ~imgs[i].busy /\ \A j \in 1..(i - 1) : imgs[j].busy) - 1
    ELSE -1

\* A deadline test that always fires.
AlwaysAfter(a, b) == TRUE

\* A deadline test that never fires.
NeverAfter(a, b) == FALSE

\* timespec_after(a, b): a is strictly later than b
timespec_after(a, b) == a > b

\* A present that never waits.
NeverWait(c) == FALSE

\* Lines 1531-1532: the present has to wait for the frame callback
FifoMustWait(c) == c.present_mode = "FIFO" /\ ~c.fifo_ready

IdleCall ==
    [op |-> "none", timeout |-> 0, start_time |-> 0, end_time |-> 0,
     current_time |-> 0, image |-> -1, busy0 |-> << >>, released |-> {},
     requests |-> << >>]

\* History kept for the properties: calls made, images the application holds
\* (acquired, not presented yet), images acquired whose release has not been
\* dispatched since, presents committed, frame callbacks dispatched, the
\* reads of the connection the thread has prepared and neither carried out
\* nor cancelled (intent), and how far the run has followed the script
\*   acquire -> 0, present(0), [frame callback], acquire -> 1, present(1)
\* (stage "nr" / "r0": the script's second acquire returned NOT_READY /
\* image 0 instead).
InitMon ==
    [ncalls |-> 0, app |-> {}, acq |-> {}, commits |-> 0, sigs |-> 0,
     stage |-> "s0", intent |-> 0]

\* The script's step on entering a call
StageOnAcquire(stage) ==
    IF stage = "s0" THEN "acq1" ELSE IF stage = "p0" THEN "acq2" ELSE "off"

StageOnAcquired(stage, result, index, sigs) ==
    IF stage = "acq1" /\ index = 0 THEN "a0"
    ELSE IF stage = "acq2" /\ index = 1 /\ sigs = 1 THEN "a1"
    ELSE IF stage = "acq2" /\ index = 0 THEN "r0"
    ELSE IF stage = "acq2" /\ result = "NOT_READY" THEN "nr"
    ELSE "off"

StageOnPresent(stage, index) ==
    IF stage = "a0" /\ index = 0 THEN "p0call"
    ELSE IF stage = "a1" /\ index = 1 THEN "p1call" ELSE "off"

StageOnCommit(stage) ==
    IF stage = "p0call" THEN "p0" ELSE IF stage = "p1call" THEN "p1" ELSE "off"

fbVars == <<cur, pend, display_formats, obs, lcVars, dpVars>>

\* The connection calls of the loop of wsi_wl_swapchain_acquire_next_image
AcquireSteps == {"dispatch", "prepare_read", "ppoll", "read_events"}
NoFailure == [step |-> "none", errno |-> "none"]

\* A loop that treats every failure as fatal.
NeverRetries(step, errno) == FALSE

\* A loop that goes round again on every failure.
AlwaysRetries(step, errno) == TRUE

\* Lines 1473-1474 and 1489-1490: the failures after which the loop
\* continues instead of returning.
acquire_retries(step, errno) ==
    \/ step = "prepare_read" /\ errno = "EAGAIN"
    \/ step = "ppoll" /\ errno \in {"EINTR", "EAGAIN"}

\* A failure path that leaves the read prepared.
IntentKeptOnFailure(step, intent) == intent

\* The read intents the thread holds after a connection call of the loop has
\* failed: wl_display_cancel_read precedes the test of ppoll's errno (line
\* 1486), wl_display_read_events ends the read it was prepared for even
\* when it fails (line 1497); a failed dispatch or prepare_read holds none.
IntentAfterFailure(step, intent) ==
    IF step \in {"ppoll", "read_events"} THEN intent - 1 ELSE intent

\* A return of wsi_wl_swapchain_acquire_next_image; failed names the
\* connection call whose failure caused it, if any.
AcquireReturnsAt(result, index, failed) ==
    /\ pc' = "idle"
    /\ call' = IdleCall
    /\ ev' = [type |-> "acquire_return",
              arg |-> [result |-> result, index |-> index, call |-> call,
                       failed |-> failed]]
    /\ mon' = [mon EXCEPT !.app = IF index >= 0 THEN @ \cup {index} ELSE @,
                          !.acq = IF index >= 0 THEN @ \cup {index} ELSE @,
                          !.stage = StageOnAcquired(@, result, index, mon.sigs),
                          !.intent = IntentAfterFailure(failed.step, @)]

AcquireReturns(result, index) == AcquireReturnsAt(result, index, NoFailure)

\* Lines 1447-1448, 1469-1476, 1484-1495, 1498-1499: a connection call of
\* the loop returned < 0 (for ppoll, with the pending read cancelled).
AcquireStepFails(step, errno) ==
    IF acquire_retries(step, errno)
    THEN /\ pc' = "acq_dispatch"
         /\ ev' = [type |-> "retry",
                   arg |-> [failed |-> [step |-> step, errno |-> errno],
                            call |-> call]]
         /\ mon' = [mon EXCEPT !.intent = IntentAfterFailure(step, @)]
         /\ UNCHANGED call
    ELSE AcquireReturnsAt("OUT_OF_DATE", -1, [step |-> step, errno |-> errno])

\* What wl_display_flush may report at line 1564: everything written, or a
\* failure (-1) with the socket full or the connection broken.
FlushOutcomes == {"OK", "EAGAIN", "EPIPE"}

\* Lines 1526-1530: the pixels of a memcpy-fallback image are copied into
\* its shared-memory region when the call begins.
PresentCopy(c, image_index) ==
    IF c.buffer_type = "SHM_MEMCPY"
    THEN << [op |-> "memcpy", image |-> image_index] >>
    ELSE << >>

\* A present that commits before it marks the image busy.
CommitBeforeBusy(c, image_index) ==
    << [op |-> "attach", image |-> image_index],
       [op |-> "damage", image |-> image_index] >>
    \o (IF c.present_mode = "FIFO"
        THEN << [op |-> "frame", image |-> image_index],
                [op |-> "fifo_ready = false", image |-> image_index] >>
        ELSE << >>)
    \o << [op |-> "commit", image |-> image_index],
          [op |-> "busy = true", image |-> image_index],
          [op |-> "flush", image |-> image_index] >>

\* Lines 1540-1564: the requests and stores of a present after its wait,
\* in the order of the code. "damage" stands for the wl_surface_damage_buffer
\* requests of the rectangles given, or for the one wl_surface_damage.
PresentRequests(c, image_index) ==
    << [op |-> "attach", image |-> image_index],
       [op |-> "damage", image |-> image_index] >>
    \o (IF c.present_mode = "FIFO"
        THEN << [op |-> "frame", image |-> image_index],
                [op |-> "fifo_ready = false", image |-> image_index] >>
        ELSE << >>)
    \o << [op |-> "busy = true", image |-> image_index],
          [op |-> "commit", image |-> image_index],
          [op |-> "flush", image |-> image_index] >>

\* A return of wsi_wl_swapchain_queue_present; dispatch and flush are the
\* outcomes of the connection calls the call made ("none": not made).
PresentReturnsAt(result, dispatch, flush) ==
    /\ pc' = "idle"
    /\ call' = IdleCall
    /\ ev' = [type |-> IF result = "SUCCESS" THEN "present_commit"
                       ELSE "present_fail",
              arg |-> [result |-> result, index |-> call.image, call |-> call,
                       dispatch |-> dispatch, flush |-> flush,
                       requests |->
                          IF result = "SUCCESS"
                          THEN call.requests \o PresentRequests(chain, call.image)
                          ELSE call.requests]]
    /\ mon' = [mon EXCEPT !.app = IF result = "SUCCESS" THEN @ \ {call.image} ELSE @,
                          !.commits = IF result = "SUCCESS" THEN @ + 1 ELSE @,
                          !.stage = IF result = "SUCCESS" THEN StageOnCommit(@)
                                    ELSE "off"]

PresentReturns(result) == PresentReturnsAt(result, "none", "none")

\* Lines 1438-1441: the deadline is computed from the clock at entry.
acquire_next_image_enter ==
    \E timeout \in 0..MaxTimeout :
        /\ pc = "idle"
        /\ mon.ncalls < MaxCalls
        /\ now + timeout < MaxTime
        /\ pc' = "acq_dispatch"
        /\ call' = [IdleCall EXCEPT !.op = "acquire", !.timeout = timeout,
                                    !.start_time = now,
                                    !.end_time = now + timeout,
                                    !.busy0 = images]
        /\ ev' = [type |-> "acquire_enter", arg |-> timeout]
        /\ mon' = [mon EXCEPT !.ncalls = @ + 1, !.stage = StageOnAcquire(@)]
        /\ UNCHANGED <<chain, images, now, wire, queue, peer, fbVars>>

\* Lines 1445-1446: wl_display_dispatch_queue_pending runs the listeners of
\* the events already read into the queue.
acquire_dispatch_pending ==
    LET st == DispatchEvents([images |-> images, chain |-> chain], queue) IN
    /\ pc = "acq_dispatch"
    /\ images' = st.images
    /\ chain' = st.chain
    /\ queue' = << >>
    /\ pc' = "acq_scan"
    /\ call' = [call EXCEPT !.released = @ \cup ReleasedBy(queue)]
    /\ ev' = [type |-> "dispatch", arg |-> queue]
    /\ mon' = [mon EXCEPT !.acq = @ \ ReleasedBy(queue),
                          !.sigs = @ + FrameDones(queue)]
    /\ UNCHANGED <<now, wire, peer, fbVars>>

\* Lines 1450-1458
acquire_scan ==
    LET i == FirstFree(images) IN
    /\ pc = "acq_scan"
    /\ IF i >= 0
       THEN /\ images' = [images EXCEPT ![i + 1].busy = TRUE]
            /\ AcquireReturns(IF chain.suboptimal THEN "SUBOPTIMAL" ELSE "SUCCESS", i)
       ELSE /\ pc' = "acq_time"
            /\ ev' = [type |-> "scan", arg |-> -1]
            /\ UNCHANGED <<images, call, mon>>
    /\ UNCHANGED <<chain, now, wire, queue, peer, fbVars>>

\* Lines 1460-1476: the deadline test, then wl_display_prepare_read_queue,
\* which fails with EAGAIN when the queue holds events.
acquire_check_timeout ==
    /\ pc = "acq_time"
    /\ IF timespec_after(now, call.end_time)
       THEN AcquireReturns("NOT_READY", -1)
       ELSE IF queue # << >>
       THEN AcquireStepFails("prepare_read", "EAGAIN")
       ELSE /\ pc' = "acq_poll"
            /\ call' = [call EXCEPT !.current_time = now]
            /\ ev' = [type |-> "prepare_read", arg |-> "OK"]
            /\ mon' = [mon EXCEPT !.intent = @ + 1]
    /\ UNCHANGED <<chain, images, now, wire, queue, peer, fbVars>>

\* Lines 1483, 1497: ppoll reports the fd readable and wl_display_read_events
\* moves what the peer sent into the queue.
acquire_ppoll_readable ==
    /\ pc = "acq_poll"
    /\ wire # << >>
    /\ queue' = queue \o wire
    /\ wire' = << >>
    /\ pc' = "acq_dispatch"
    /\ ev' = [type |-> "read_events", arg |-> wire]
    /\ mon' = [mon EXCEPT !.intent = @ - 1]
    /\ UNCHANGED <<chain, images, call, now, peer, fbVars>>

\* Lines 1482-1494: ppoll returns 0 once rel_timeout = end_time -
\* current_time has passed with nothing to read.
acquire_ppoll_timeout ==
    /\ pc = "acq_poll"
    /\ wire = << >>
    /\ now >= call.current_time + (call.end_time - call.current_time)
    /\ pc' = "acq_dispatch"
    /\ ev' = [type |-> "ppoll", arg |-> "TIMEOUT"]
    /\ mon' = [mon EXCEPT !.intent = @ - 1]
    /\ UNCHANGED <<chain, images, call, now, wire, queue, peer, fbVars>>

\* Lines 1487-1490: ppoll interrupted (EINTR, EAGAIN)
acquire_ppoll_interrupted ==
    \E errno \in {"EINTR", "EAGAIN"} :
        /\ pc = "acq_poll"
        /\ AcquireStepFails("ppoll", errno)
        /\ UNCHANGED <<chain, images, now, wire, queue, peer, fbVars>>

\* The failures of the connection in one of the calls of the loop, other
\* than a prepare_read that finds events queued and an interrupted ppoll.
IoFailures ==
    { [step |-> s, errno |-> "EPIPE"] : s \in AcquireSteps }

\* Lines 1447-1448, 1475, 1491, 1498-1499: a failure of the connection in
\* one of the calls of the loop.
acquire_io_failure ==
    \E f \in IoFailures :
        /\ \/ f.step = "dispatch" /\ pc = "acq_dispatch"
           \/ /\ f.step = "prepare_read"
              /\ pc = "acq_time"
              /\ ~timespec_after(now, call.end_time)
              /\ queue = << >>
           \/ f.step \in {"ppoll", "read_events"} /\ pc = "acq_poll"
        /\ AcquireStepFails(f.step, f.errno)
        /\ UNCHANGED <<chain, images, now, wire, queue, peer, fbVars>>

\* Entry of wsi_wl_swapchain_queue_present with an image the application
\* acquired (the buffer type is native: no copy at lines 1526-1530).
queue_present_enter ==
    \E image_index \in mon.app :
        /\ pc = "idle"
        /\ mon.ncalls < MaxCalls
        /\ pc' = "pres_wait"
        /\ call' = [IdleCall EXCEPT !.op = "present", !.image = image_index,
                                    !.start_time = now, !.busy0 = images,
                                    !.requests = PresentCopy(chain, image_index)]
        /\ ev' = [type |-> "present_enter", arg |-> image_index]
        /\ mon' = [mon EXCEPT !.ncalls = @ + 1,
                              !.stage = StageOnPresent(@, image_index)]
        /\ UNCHANGED <<chain, images, now, wire, queue, peer, fbVars>>

\* Lines 1532-1534: wl_display_dispatch_queue dispatches the queue, after
\* reading from the fd (blocking) when the queue is empty.
queue_present_dispatch ==
    LET events == IF queue # << >> THEN queue ELSE wire
        st == DispatchEvents([images |-> images, chain |-> chain], events)
    IN /\ pc = "pres_wait"
       /\ FifoMustWait(chain)
       /\ events # << >>
       /\ images' = st.images
       /\ chain' = st.chain
       /\ queue' = << >>
       /\ wire' = IF queue # << >> THEN wire ELSE << >>
       /\ call' = [call EXCEPT !.released = @ \cup ReleasedBy(events)]
       /\ ev' = [type |-> "dispatch", arg |-> events]
       /\ mon' = [mon EXCEPT !.acq = @ \ ReleasedBy(events),
                             !.sigs = @ + FrameDones(events)]
       /\ UNCHANGED <<pc, now, peer, fbVars>>

\* Lines 1535-1536
queue_present_io_failure ==
    /\ pc = "pres_wait"
    /\ FifoMustWait(chain)
    /\ PresentReturnsAt("OUT_OF_DATE", "EPIPE", "none")
    /\ UNCHANGED <<chain, images, now, wire, queue, peer, fbVars>>

\* A present that asks for a frame callback in every present mode.
PresentFrameAnyMode(c) == [c EXCEPT !.frame = TRUE, !.fifo_ready = FALSE]

\* Lines 1556-1560: under FIFO the present asks for a frame callback, keeps
\* it in chain->frame and clears fifo_ready; under any other mode neither
\* field is touched.
PresentFrame(c) ==
    IF c.present_mode = "FIFO"
    THEN [c EXCEPT !.frame = TRUE, !.fifo_ready = FALSE]
    ELSE c

\* Lines 1540-1566: attach, damage, frame callback (FIFO), busy, commit and
\* flush: the peer now holds the buffer. The value wl_display_flush returns
\* is not looked at (line 1564); requests a failed flush left in the
\* connection's buffer go out with a later flush, and the peer reacts to
\* them at a time of its own in any case.
queue_present_commit ==
    \E flush \in FlushOutcomes :
    LET fifo == chain.present_mode = "FIFO" IN
    /\ pc = "pres_wait"
    /\ ~FifoMustWait(chain)
    /\ chain' = PresentFrame(chain)
    /\ images' = [images EXCEPT ![call.image + 1].busy = TRUE]
    /\ peer' = [held |-> peer.held \cup {call.image},
                frame_pending |-> peer.frame_pending \/ fifo,
                attached |-> call.image]
    /\ PresentReturnsAt("SUCCESS", "none", flush)
    /\ UNCHANGED <<now, wire, queue, fbVars>>

\* The compositor is done with a buffer it holds: wl_buffer.release
peer_release ==
    \E i \in peer.held :
        /\ wire' = Append(wire, ReleaseEvent(i))
        /\ peer' = [peer EXCEPT !.held = @ \ {i}]
        /\ ev' = [type |-> "peer_release", arg |-> i]
        /\ UNCHANGED <<chain, images, pc, call, now, queue, mon, fbVars>>

\* The compositor signals the frame callback: wl_callback.done
peer_frame_done ==
    /\ peer.frame_pending
    /\ wire' = Append(wire, FrameDoneEvent)
    /\ peer' = [peer EXCEPT !.frame_pending = FALSE]
    /\ ev' = [type |-> "peer_frame_done", arg |-> 0]
    /\ UNCHANGED <<chain, images, pc, call, now, queue, mon, fbVars>>

\* Another thread of the application reads the display's fd (the case the
\* comment at lines 1470-1472 describes); it cannot while this thread has a
\* read prepared.
other_thread_reads ==
    /\ wire # << >>
    /\ pc # "acq_poll"
    /\ queue' = queue \o wire
    /\ wire' = << >>
    /\ ev' = [type |-> "other_thread_reads", arg |-> wire]
    /\ UNCHANGED <<chain, images, pc, call, now, peer, mon, fbVars>>

\* CLOCK_MONOTONIC advances
Tick ==
    /\ now < MaxTime
    /\ now' = now + 1
    /\ ev' = [type |-> "tick", arg |-> now + 1]
    /\ UNCHANGED <<chain, images, pc, call, wire, queue, peer, mon, fbVars>>

\* The present modes a swapchain is created with
PresentModes == {"FIFO", "MAILBOX"}

\* A swapchain of 1..MaxImages images on a surface without feedback, some
\* time after wsi_wl_surface_create_swapchain returned: no image is busy,
\* and a feedback commit may have made the chain suboptimal meanwhile.
InitSwapchain ==
    /\ cur = InitFeedback
    /\ pend = InitFeedback
    /\ display_formats \in DisplayCatalogs
    /\ obs = InitObs
    /\ chain \in { [NewChain(InitFeedback, d, f, TRUE, m, n)
                       EXCEPT !.suboptimal = sub] :
                   d \in DisplayCatalogs, f \in AppFormats, m \in PresentModes,
                   n \in 1..MaxImages, sub \in BOOLEAN }
    /\ images = [i \in 1..chain.image_count |-> [busy |-> FALSE]]
    /\ pc = "idle"
    /\ call = IdleCall
    /\ now = 0
    /\ wire = << >>
    /\ queue = << >>
    /\ peer = [held |-> {}, frame_pending |-> FALSE, attached |-> -1]
    /\ surface = << >>
    /\ chains = << >>
    /\ display = << >>
    /\ ev = [type |-> "init", arg |-> 0]
    /\ mon = InitMon

NextSwapchain ==
    \/ acquire_next_image_enter
    \/ acquire_dispatch_pending
    \/ acquire_scan
    \/ acquire_check_timeout
    \/ acquire_ppoll_readable
    \/ acquire_ppoll_timeout
    \/ acquire_ppoll_interrupted
    \/ acquire_io_failure
    \/ queue_present_enter
    \/ queue_present_dispatch
    \/ queue_present_io_failure
    \/ queue_present_commit
    \/ peer_release
    \/ peer_frame_done
    \/ other_thread_reads
    \/ Tick

SpecSwapchain == InitSwapchain /\ [][NextSwapchain]_vars

\* The steps of the loop of wsi_wl_swapchain_acquire_next_image
AcquireStep ==
    \/ acquire_dispatch_pending
    \/ acquire_scan
    \/ acquire_check_timeout
    \/ acquire_ppoll_readable
    \/ acquire_ppoll_timeout
    \/ acquire_ppoll_interrupted
    \/ acquire_io_failure

\* The same system with its scheduling: the clock keeps advancing and the
\* thread inside acquire keeps running.
SpecSwapchainFair ==
    /\ InitSwapchain
    /\ [][NextSwapchain]_vars
    /\ WF_vars(Tick)
    /\ WF_vars(AcquireStep)

(***************************************************************************)
(* A running swapchain whose surface receives feedback                     *)
(***************************************************************************)
\* The pending feedback the events of a cycle before its done leave when
\* they bring table 1 and one tranche with the records of the index array.
CyclePending(indices) ==
    LET p0 == [InitFeedback EXCEPT
                  !.format_table = MappedTable(1),
                  !.main_device = 1,
                  !.pending_tranche = [target_device |-> 1, flags |-> 1,
                                       formats |-> << >>]]
    IN { TrancheDoneState(st[2]) :
           st \in TrancheFormatsStates(InitFeedback, p0, indices) }

\* A cycle offering the chain's format with the modifiers it was allocated
\* with, and one offering it with more.
PendingCycles == CyclePending(<<0>>) \cup CyclePending(<<0, 1>>)

\* The thread is in a call that dispatches the events of the display's queue
\* (lines 1445 and 1533).
Dispatching == pc = "acq_dispatch" \/ (pc = "pres_wait" /\ FifoMustWait(chain))

\* The events of a feedback cycle before its done, dispatched in one go:
\* the handlers of SpecFeedback, which write the pending feedback only.
surface_dmabuf_feedback_cycle ==
    \E p \in PendingCycles :
        /\ Dispatching
        /\ obs.ndone < MaxDone
        /\ pend = InitFeedback
        /\ pend' = p
        /\ ev' = [type |-> "feedback_cycle", arg |-> 0]
        /\ UNCHANGED <<cur, display_formats, chain, obs, rtVars>>

\* The done event of the cycle, dispatched by the call the thread is in.
dispatch_feedback_done ==
    /\ Dispatching
    /\ pend # InitFeedback
    /\ surface_dmabuf_feedback_done

\* A swapchain of one image, not suboptimal, on a surface bound to its
\* feedback, which has committed nothing yet.
InitSwapchainFeedback ==
    /\ InitSwapchain
    /\ chain.image_count = 1
    /\ ~chain.suboptimal

NextSwapchainFeedback ==
    \/ NextSwapchain
    \/ surface_dmabuf_feedback_cycle
    \/ dispatch_feedback_done

SpecSwapchainFeedback == InitSwapchainFeedback /\ [][NextSwapchainFeedback]_vars

(***************************************************************************)
(* A format catalog on its own (struct u_vector of struct wsi_wl_format)   *)
(***************************************************************************)
\* Insertions made into the catalog in one run.
MaxInserts == 3

\* The inputs of the insertions: VkFormats (one of them not renderable), the
\* non-empty flag words (the assert of line 186), modifiers and DRM formats.
CatalogFormats == {"B8G8R8A8_UNORM", "R5G6B5_UNORM_PACK16", "B8G8R8_UNORM"}
CatalogFlags == {WSI_WL_FMT_ALPHA, WSI_WL_FMT_OPAQUE, AO}
CatalogModifiers == {"M1", "M2", DRM_FORMAT_MOD_INVALID}
CatalogDrmFormats == {"ARGB8888", "XRGB8888", "RGB565"}

CatalogShmFormats == {"WL_SHM_FORMAT_ARGB8888", "WL_SHM_FORMAT_XRGB8888",
                      "RGB565"}

\* History kept for the properties: the insertion before the last one, the
\* number of insertions so far, and the VkFormats some insertion offered
\* with a modifier other than DRM_FORMAT_MOD_INVALID.
InitCatalogObs == [prev |-> [type |-> "init", arg |-> 0], n |-> 0, real |-> {}]

\* The VkFormats an insertion of a DRM format is about
VkFormatsOf(drm_format) ==
    { DrmToVk(drm_format)[i][1] : i \in 1..Len(DrmToVk(drm_format)) }

\* wsi_wl_display_add_vk_format_modifier when the allocation it needs fails
\* (u_vector_init_pow2 or u_vector_add returns NULL): a format without an
\* entry gets none (lines 204-211), an entry's flags are updated and its
\* modifier list is left alone (lines 191, 232-234).
AddWithoutMemory(formats, vk_format, flags) ==
    LET i == find_format(formats, vk_format) IN
    IF i # 0 THEN [formats EXCEPT ![i].flags = FlagsOr(@, flags)]
    ELSE formats

\* One call of wsi_wl_display_add_vk_format_modifier on the catalog, the
\* heap having memory or not
catalog_add_vk_format_modifier ==
    \E vk_format \in CatalogFormats, flags \in CatalogFlags,
       modifier \in CatalogModifiers, memory \in BOOLEAN :
        /\ obs.n < MaxInserts
        /\ display_formats' =
              IF memory
              THEN wsi_wl_display_add_vk_format_modifier(
                       display_formats, vk_format, flags, modifier)
              ELSE AddWithoutMemory(display_formats, vk_format, flags)
        /\ ev' = [type |-> "add_vk",
                  arg |-> [format |-> vk_format, flags |-> flags,
                           modifier |-> modifier, memory |-> memory,
                           before |-> display_formats]]
        /\ obs' = [prev |-> ev, n |-> obs.n + 1,
                   real |-> IF modifier = DRM_FORMAT_MOD_INVALID THEN obs.real
                            ELSE obs.real \cup {vk_format}]
        /\ UNCHANGED <<cur, pend, chain, rtVars>>

\* One call of wsi_wl_display_add_drm_format_modifier on the catalog
catalog_add_drm_format_modifier ==
    \E drm_format \in CatalogDrmFormats, modifier \in CatalogModifiers :
        /\ obs.n < MaxInserts
        /\ display_formats' = wsi_wl_display_add_drm_format_modifier(
                                  display_formats, drm_format, modifier)
        /\ ev' = [type |-> "add_drm",
                  arg |-> [format |-> drm_format, flags |-> 0,
                           modifier |-> modifier, memory |-> TRUE,
                           before |-> display_formats]]
        /\ obs' = [prev |-> ev, n |-> obs.n + 1,
                   real |-> IF modifier = DRM_FORMAT_MOD_INVALID THEN obs.real
                            ELSE obs.real \cup VkFormatsOf(drm_format)]
        /\ UNCHANGED <<cur, pend, chain, rtVars>>

\* One call of wsi_wl_display_add_wl_shm_format on the catalog
catalog_add_wl_shm_format ==
    \E shm_format \in CatalogShmFormats :
        /\ obs.n < MaxInserts
        /\ display_formats' = wsi_wl_display_add_wl_shm_format(
                                  display_formats, shm_format)
        /\ ev' = [type |-> "add_shm",
                  arg |-> [format |-> shm_format, flags |-> 0,
                           modifier |-> DRM_FORMAT_MOD_INVALID,
                           memory |-> TRUE, before |-> display_formats]]
        /\ obs' = [obs EXCEPT !.prev = ev, !.n = @ + 1]
        /\ UNCHANGED <<cur, pend, chain, rtVars>>

\* An empty catalog (u_vector_init of display->formats, line 601)
InitCatalog ==
    /\ cur = InitFeedback
    /\ pend = InitFeedback
    /\ display_formats = << >>
    /\ chain = ZeroChain
    /\ images = << >>
    /\ pc = "idle"
    /\ call = << >>
    /\ now = 0
    /\ wire = << >>
    /\ queue = << >>
    /\ peer = << >>
    /\ surface = << >>
    /\ chains = << >>
    /\ display = << >>
    /\ ev = [type |-> "init", arg |-> 0]
    /\ obs = InitCatalogObs
    /\ mon = << >>

NextCatalog ==
    \/ catalog_add_vk_format_modifier
    \/ catalog_add_drm_format_modifier
    \/ catalog_add_wl_shm_format

SpecCatalog == InitCatalog /\ [][NextCatalog]_vars

(***************************************************************************)
(* Creation and destruction of the swapchains of one surface               *)
(*                                                                         *)
(* surface is the wsi_wl_surface: display is "NULL" or the kind of display *)
(* connection that wsi_wl_display_create made, surface is TRUE when the    *)
(* proxy wrapper exists, wl_dmabuf_feedback is TRUE when the feedback      *)
(* object exists, chain is 0 (NULL) or the swapchain the surface points    *)
(* to.  chains[c] is the c-th wsi_wl_swapchain allocated; after vk_free    *)
(* its record is kept with state "freed", so that a pointer to it can be   *)
(* recognised as dangling and what it still held can be counted.           *)
(***************************************************************************)
MaxChains == 2
MaxLcImages == 2

BufferTypes == {"NATIVE", "GPU_SHM", "SHM_MEMCPY"}

\* What wsi_wl_display_create yields: a software display (wl_shm only), a
\* display whose wl_dmabuf is older than get_surface_feedback, or one that
\* supports surface feedback.
DisplayKinds == {"SHM", "DMABUF", "FEEDBACK"}

NullSurface ==
    [display |-> "NULL", surface |-> FALSE, wl_dmabuf_feedback |-> FALSE,
     chain |-> 0]

ZeroImage == [buffer |-> FALSE, base |-> FALSE, shm_size |-> 0]

ZeroedChain(num_images) ==
    [state |-> "live", wsi_wl_surface |-> FALSE, frame |-> FALSE,
     buffer_type |-> "none", image_count |-> 0,
     images |-> [i \in 1..num_images |-> ZeroImage]]

\* The steps of create_swapchain that can fail, in the order of the code.
CreateSteps == <<"vk_zalloc", "wsi_wl_display_create", "wl_proxy_create_wrapper",
                 "bind_to_dmabuf_feedback", "wsi_swapchain_init",
                 "wsi_create_image", "wl_buffer">>

NoFault == [step |-> "none", image |-> 0]

Faults ==
    {NoFault}
      \cup { [step |-> CreateSteps[s], image |-> 0] : s \in 1..5 }
      \cup { [step |-> CreateSteps[s], image |-> k] :
               s \in 6..7, k \in 0..(MaxLcImages - 1) }

\* One acquisition or release of a resource: the call and the image it is
\* about (0 for the calls about the swapchain itself).
Acquire(op, image) == [op |-> op, image |-> image]
Release(op, image) == [op |-> op, image |-> image]

\* wsi_wl_surface_init: the surface after the call and the call's result.
wsi_wl_surface_init(s, kind, fault) ==
    IF s.display # "NULL" THEN [surface |-> s, result |-> "SUCCESS"]
    ELSE IF fault.step = "wsi_wl_display_create"
    THEN [surface |-> s, result |-> "ERROR"]
    ELSE LET s1 == [s EXCEPT !.display = kind] IN
      IF fault.step = "wl_proxy_create_wrapper"
      THEN [surface |-> s1, result |-> "ERROR"]
      ELSE LET s2 == [s1 EXCEPT !.surface = TRUE] IN
        IF kind = "FEEDBACK"
        THEN IF fault.step = "bind_to_dmabuf_feedback"
             THEN [surface |-> [s2 EXCEPT !.wl_dmabuf_feedback = FALSE],
                   result |-> "ERROR"]
             ELSE [surface |-> [s2 EXCEPT !.wl_dmabuf_feedback = TRUE],
                   result |-> "SUCCESS"]
        ELSE [surface |-> s2, result |-> "SUCCESS"]

\* What an image holds, as the calls that made it.
ImageAcquires(image, k) ==
    (IF image.base THEN <<Acquire("wsi_create_image", k)>> ELSE << >>)
      \o (IF image.shm_size # 0
          THEN <<Acquire("wsi_wl_alloc_image_shm", k)>> ELSE << >>)
      \o (IF image.buffer THEN <<Acquire("wl_buffer", k)>> ELSE << >>)

\* wsi_wl_image_init of image k (counted from 0): the image it leaves, what
\* it made and what it released itself.
wsi_wl_image_init(buffer_type, k, fault) ==
    LET shm == IF buffer_type = "NATIVE" THEN 0 ELSE 1
        based == [buffer |-> FALSE, base |-> TRUE, shm_size |-> shm]
        whole == [based EXCEPT !.buffer = TRUE]
    IN
    IF fault.step = "wsi_create_image" /\ fault.image = k
    THEN [image |-> ZeroImage, result |-> "ERROR", made |-> << >>,
          log |-> << >>]
    ELSE IF fault.step = "wl_buffer" /\ fault.image = k
    THEN [image |-> [based EXCEPT !.base = FALSE], result |-> "ERROR",
          made |-> ImageAcquires(based, k),
          log |-> <<Release("wsi_destroy_image", k)>>]
    ELSE [image |-> whole, result |-> "SUCCESS",
          made |-> ImageAcquires(whole, k), log |-> << >>]

\* The loop over the images in create_swapchain, from image k on.
RECURSIVE InitImages(_, _, _, _, _)
InitImages(c, k, fault, made, log) ==
    IF k >= c.image_count
    THEN [chain |-> c, result |-> "SUCCESS", made |-> made, log |-> log]
    ELSE LET r == wsi_wl_image_init(c.buffer_type, k, fault)
             c1 == [c EXCEPT !.images[k + 1] = r.image]
         IN IF r.result # "SUCCESS"
            THEN [chain |-> c1, result |-> r.result,
                  made |-> made \o r.made, log |-> log \o r.log]
            ELSE InitImages(c1, k + 1, fault, made \o r.made, log \o r.log)

\* The release operations of one image, in the order images_free issues
\* them.
ImageReleases(image, k) ==
    IF ~image.buffer THEN << >>
    ELSE <<Release("wl_buffer_destroy", k), Release("wsi_destroy_image", k)>>
         \o (IF image.shm_size # 0
             THEN <<Release("close", k), Release("munmap", k)>> ELSE << >>)

RECURSIVE ImagesFreeLog(_, _)
ImagesFreeLog(c, k) ==
    IF k >= c.image_count THEN << >>
    ELSE ImageReleases(c.images[k + 1], k) \o ImagesFreeLog(c, k + 1)

\* wsi_wl_swapchain_images_free: the chain afterwards and the releases.
wsi_wl_swapchain_images_free(c) ==
    [chain |-> [c EXCEPT !.images =
                   [i \in DOMAIN c.images |->
                      IF i <= c.image_count /\ c.images[i].buffer
                      THEN ZeroImage ELSE c.images[i]]],
     log |-> ImagesFreeLog(c, 0)]

\* wsi_wl_swapchain_chain_free: the chain and the surface afterwards and
\* the releases.
ChainFreeKeepsSurface(c, s) ==
    [chain |-> [c EXCEPT !.state = "freed", !.frame = FALSE],
     surface |-> s,
     log |-> (IF c.frame THEN <<Release("wl_callback_destroy", 0)>> ELSE << >>)
             \o <<Release("wsi_swapchain_finish", 0), Release("vk_free", 0)>>]

wsi_wl_swapchain_chain_free(c, s) ==
    [chain |-> [c EXCEPT !.state = "freed", !.frame = FALSE],
     surface |-> IF c.wsi_wl_surface THEN [s EXCEPT !.chain = 0] ELSE s,
     log |-> (IF c.frame THEN <<Release("wl_callback_destroy", 0)>> ELSE << >>)
             \o (IF c.wsi_wl_surface
                 THEN <<Release("surface_chain_NULL", 0)>> ELSE << >>)
             \o <<Release("wsi_swapchain_finish", 0), Release("vk_free", 0)>>]

nonLcVars == <<cur, pend, display_formats, chain, images, pc, call, now, wire,
               queue, peer, obs, mon, dpVars>>

Live == { c \in DOMAIN chains : chains[c].state = "live" }

\* What the call was and did: the swapchain it was about, its inputs and
\* result, the image resources it had to deal with (made), the releases it
\* issued in order (log), and the swapchain (was) and the surface (before)
\* it found.
LcEvent(type, c, old, fault, result, made, log, was) ==
    ev' = [type |-> type,
           arg |-> [chain |-> c, old |-> old, fault |-> fault,
                    result |-> result, made |-> made, log |-> log,
                    was |-> was, before |-> surface]]

RECURSIVE ChainAcquires(_, _)
ChainAcquires(c, k) ==
    IF k >= c.image_count THEN << >>
    ELSE ImageAcquires(c.images[k + 1], k) \o ChainAcquires(c, k + 1)

\* The buffer type follows from the device the display was made for.
BufferTypesOf(kind) ==
    IF kind = "SHM" THEN {"GPU_SHM", "SHM_MEMCPY"} ELSE {"NATIVE"}

\* vkCreateSwapchainKHR on the surface.  old is 0 for VK_NULL_HANDLE.
lifecycle_create_swapchain ==
    \E old \in {0} \cup Live, num_images \in 1..MaxLcImages,
       kind \in DisplayKinds, fault \in Faults :
      /\ Len(chains) < MaxChains
      /\ kind = IF surface.display = "NULL" THEN kind ELSE surface.display
      /\ fault.image < num_images
      /\ fault.step \in {"wsi_wl_display_create", "wl_proxy_create_wrapper"}
            => surface.display = "NULL"
      /\ fault.step = "bind_to_dmabuf_feedback"
            => surface.display = "NULL" /\ kind = "FEEDBACK"
      /\ \E buffer_type \in BufferTypesOf(kind) :
          LET id == Len(chains) + 1
              disowned == IF old # 0
                          THEN [chains EXCEPT ![old].wsi_wl_surface = FALSE]
                          ELSE chains
              c0 == [ZeroedChain(num_images) EXCEPT !.wsi_wl_surface = TRUE]
              s0 == [surface EXCEPT !.chain = id]
              init == wsi_wl_surface_init(s0, kind, fault)
          IN
          IF fault.step = "vk_zalloc"
          THEN /\ UNCHANGED lcVars
               /\ LcEvent("create", 0, old, fault, "ERROR", << >>, << >>, c0)
          ELSE IF init.result # "SUCCESS"
          THEN LET f == wsi_wl_swapchain_chain_free(c0, init.surface) IN
               /\ chains' = Append(disowned, f.chain)
               /\ surface' = f.surface
               /\ LcEvent("create", id, old, fault, init.result, << >>, f.log,
                          c0)
          ELSE IF fault.step = "wsi_swapchain_init"
          THEN /\ chains' = Append(disowned, [c0 EXCEPT !.state = "freed"])
               /\ surface' = init.surface
               /\ LcEvent("create", id, old, fault, "ERROR", << >>,
                          <<Release("vk_free", 0)>>, c0)
          ELSE LET c1 == [c0 EXCEPT !.image_count = num_images,
                                    !.buffer_type = buffer_type]
                   r == InitImages(c1, 0, fault, << >>, << >>)
               IN
               IF r.result = "SUCCESS"
               THEN /\ chains' = Append(disowned, r.chain)
                    /\ surface' = init.surface
                    /\ LcEvent("create", id, old, fault, "SUCCESS", r.made,
                               << >>, c1)
               ELSE LET imf == wsi_wl_swapchain_images_free(r.chain)
                        f == wsi_wl_swapchain_chain_free(imf.chain,
                                                        init.surface)
                    IN /\ chains' = Append(disowned, f.chain)
                       /\ surface' = f.surface
                       /\ LcEvent("create", id, old, fault, r.result,
                                  r.made, r.log \o imf.log \o f.log, c1)
      /\ UNCHANGED nonLcVars

\* vkDestroySwapchainKHR: wsi_wl_swapchain_destroy.
lifecycle_swapchain_destroy ==
    \E c \in Live :
      LET imf == wsi_wl_swapchain_images_free(chains[c])
          f == wsi_wl_swapchain_chain_free(imf.chain, surface)
      IN /\ chains' = [chains EXCEPT ![c] = f.chain]
         /\ surface' = f.surface
         /\ LcEvent("destroy", c, 0, NoFault, "SUCCESS",
                    ChainAcquires(chains[c], 0), imf.log \o f.log, chains[c])
         /\ UNCHANGED nonLcVars

\* What reaching the surface and its display through chain->wsi_wl_surface
\* gives (lines 1433 and 1436, 1523 and 1533-1564): the pointer is followed
\* unchecked, so a swapchain whose back-reference was cleared dereferences
\* NULL.
SurfaceAccess(c) ==
    IF c.wsi_wl_surface THEN "SUCCESS" ELSE "NULL_DEREFERENCE"

\* wsi_wl_swapchain_acquire_next_image on a live swapchain (the loop is
\* followed in SpecSwapchain): line 1436 reads
\* chain->wsi_wl_surface->display->wl_display before anything else.
lifecycle_acquire_next_image ==
    \E c \in Live :
      /\ LcEvent("acquire", c, 0, NoFault, SurfaceAccess(chains[c]), << >>,
                 << >>, chains[c])
      /\ UNCHANGED <<lcVars, nonLcVars>>

\* wsi_wl_swapchain_queue_present on a live swapchain.  A FIFO present on
\* the chain that owns the surface requests a frame callback (the rest of
\* queue_present is followed in SpecSwapchain); on a swapchain without the
\* back-reference the first use of wsi_wl_surface (line 1533 or 1541)
\* dereferences NULL.
lifecycle_queue_present ==
    \E c \in Live :
      \/ /\ chains[c].wsi_wl_surface
         /\ surface.surface
         /\ ~chains[c].frame
         /\ chains' = [chains EXCEPT ![c].frame = TRUE]
         /\ LcEvent("present", c, 0, NoFault, SurfaceAccess(chains[c]),
                    << >>, << >>, chains[c])
         /\ UNCHANGED <<surface, nonLcVars>>
      \/ /\ ~chains[c].wsi_wl_surface
         /\ LcEvent("present", c, 0, NoFault, SurfaceAccess(chains[c]),
                    << >>, << >>, chains[c])
         /\ UNCHANGED <<lcVars, nonLcVars>>

\* frame_handle_done.
lifecycle_frame_handle_done ==
    \E c \in Live :
      /\ chains[c].frame
      /\ chains' = [chains EXCEPT ![c].frame = FALSE]
      /\ LcEvent("frame_done", c, 0, NoFault, "SUCCESS", << >>, << >>,
                 chains[c])
      /\ UNCHANGED <<surface, nonLcVars>>

InitLifecycle ==
    /\ cur = InitFeedback
    /\ pend = InitFeedback
    /\ display_formats = << >>
    /\ chain = ZeroChain
    /\ images = << >>
    /\ pc = "idle"
    /\ call = << >>
    /\ now = 0
    /\ wire = << >>
    /\ queue = << >>
    /\ peer = << >>
    /\ surface = NullSurface
    /\ chains = << >>
    /\ display = << >>
    /\ ev = [type |-> "init", arg |-> 0]
    /\ obs = << >>
    /\ mon = << >>

NextLifecycle ==
    \/ lifecycle_create_swapchain
    \/ lifecycle_swapchain_destroy
    \/ lifecycle_acquire_next_image
    \/ lifecycle_queue_present
    \/ lifecycle_frame_handle_done

SpecLifecycle == InitLifecycle /\ [][NextLifecycle]_vars

(***************************************************************************)
(* Presents on a swapchain of each buffer type                             *)
(***************************************************************************)
\* The images of the swapchains SpecPresent follows
PresentImages == 2

\* A swapchain of PresentImages images of any buffer type and either present
\* mode, some time after wsi_wl_surface_create_swapchain returned.
InitPresent ==
    /\ cur = InitFeedback
    /\ pend = InitFeedback
    /\ display_formats = << >>
    /\ obs = InitObs
    /\ chain \in { [NewChain(InitFeedback, << >>, f, FALSE, m, PresentImages)
                       EXCEPT !.buffer_type = b] :
                   f \in AppFormats, m \in PresentModes, b \in BufferTypes }
    /\ images = [i \in 1..chain.image_count |-> [busy |-> FALSE]]
    /\ pc = "idle"
    /\ call = IdleCall
    /\ now = 0
    /\ wire = << >>
    /\ queue = << >>
    /\ peer = [held |-> {}, frame_pending |-> FALSE, attached |-> -1]
    /\ surface = << >>
    /\ chains = << >>
    /\ display = << >>
    /\ ev = [type |-> "init", arg |-> 0]
    /\ mon = InitMon

SpecPresent == InitPresent /\ [][NextSwapchain]_vars

(***************************************************************************)
(* A display connection through wsi_wl_display_init, for each caller       *)
(***************************************************************************)
\* The events the peer may send while the second round-trip dispatches and
\* afterwards.
MaxDisplayEvents == 3

ZWP_LINUX_DMABUF_V1_GET_DEFAULT_FEEDBACK_SINCE_VERSION == 4

MIN2(a, b) == IF a < b THEN a ELSE b

\* The functions that build a wsi_wl_display
DisplayCallers ==
    {"wsi_wl_display_create", "wsi_wl_surface_get_formats",
     "wsi_wl_surface_get_formats2",
     "wsi_GetPhysicalDeviceWaylandPresentationSupportKHR"}

\* The get_format_list argument each caller passes to wsi_wl_display_init
GetFormatList(caller) ==
    caller # "wsi_GetPhysicalDeviceWaylandPresentationSupportKHR"

\* The allocations made before the first round-trip, each of which may fail
DisplayAllocations ==
    {"vk_alloc", "u_vector_init", "wl_display_create_queue",
     "wl_proxy_create_wrapper", "wl_display_get_registry"}

NoAllocFault == "none"

\* The globals the registry may announce, with the versions of each
GlobalInterfaces == {"wl_shm", "zwp_linux_dmabuf_v1", "wl_compositor"}

GlobalVersions(interface) ==
    IF interface = "zwp_linux_dmabuf_v1" THEN {2, 3, 4, 5} ELSE {1}

\* The (VkFormat, flags) pairs an insertion of a DRM format offers
Offered(drm_format) ==
    { << DrmToVk(drm_format)[i][1], DrmToVk(drm_format)[i][2] >> :
        i \in 1..Len(DrmToVk(drm_format)) }

\* The display before a caller builds it
IdleDisplay ==
    [pc |-> "idle", caller |-> "none", sw |-> FALSE, get_format_list |-> FALSE,
     force_bgra8_unorm_first |-> FALSE, fault |-> NoAllocFault,
     struct |-> "NULL", formats |-> "NULL", queue |-> "NULL",
     wl_display_wrapper |-> "NULL", registry |-> "NULL", wl_shm |-> "NULL",
     wl_dmabuf |-> "NULL", version |-> 0, wl_dmabuf_feedback |-> "NULL",
     format_table |-> NullTable, result |-> "none", ret |-> "none",
     out |-> << >>,
     \* history kept for the properties
     globals |-> {}, advertised |-> 0, nev |-> 0, subscriptions |-> 0,
     subscribed |-> FALSE, tables |-> 0, mappings |-> 0, offered |-> {},
     catalog |-> << >>]

\* memset(display, 0, sizeof(*display)) in the storage the caller provides
ZeroDisplay(caller, sw, force, fault) ==
    [IdleDisplay EXCEPT
        !.caller = caller, !.sw = sw,
        !.get_format_list = GetFormatList(caller),
        !.force_bgra8_unorm_first = force, !.fault = fault,
        !.struct = IF caller = "wsi_wl_display_create" THEN "HEAP" ELSE "STACK"]

Destroyed(object) == IF object = "LIVE" THEN "DESTROYED" ELSE object

\* A finish that forgets the event queue.
FinishKeepsQueue(d) ==
    [d EXCEPT !.formats = "FINISHED",
              !.wl_shm = Destroyed(@), !.wl_dmabuf = Destroyed(@),
              !.wl_display_wrapper = Destroyed(@)]

\* wsi_wl_display_finish
wsi_wl_display_finish(d) ==
    [d EXCEPT !.formats = "FINISHED",
              !.wl_shm = Destroyed(@), !.wl_dmabuf = Destroyed(@),
              !.wl_display_wrapper = Destroyed(@), !.queue = Destroyed(@)]

\* dmabuf_feedback_format_table_fini(&display->format_table)
display_format_table_fini(d) ==
    IF d.format_table.data = "MAPPED" THEN [d EXCEPT !.mappings = @ - 1]
    ELSE d

\* The out: label of wsi_wl_display_init
wsi_wl_display_init_out(d) ==
    LET r == [d EXCEPT !.registry = Destroyed(@), !.result = "VK_SUCCESS",
                       !.pc = "init_returned"] IN
    IF r.wl_dmabuf_feedback # "NULL"
    THEN display_format_table_fini(
             [r EXCEPT !.wl_dmabuf_feedback = "NULL", !.subscriptions = @ - 1])
    ELSE r

\* The fail: label of wsi_wl_display_init
wsi_wl_display_init_fail(d, result) ==
    [wsi_wl_display_finish(d) EXCEPT !.result = result, !.pc = "init_returned"]

\* An unwinding that leaves the registry alone.
FailKeepsRegistry(d, result) == wsi_wl_display_init_fail(d, result)

\* The fail_registry: label of wsi_wl_display_init
wsi_wl_display_init_fail_registry(d, result) ==
    wsi_wl_display_init_fail([d EXCEPT !.registry = Destroyed(@)], result)

\* The caller's allocation of the display and wsi_wl_display_init up to its
\* first round-trip (lines 771-803), one of the allocations failing or none
DisplayEnter(caller, sw, force, fault) ==
    LET d == ZeroDisplay(caller, sw, force, fault) IN
    CASE fault = "vk_alloc" ->
           [d EXCEPT !.struct = "NULL", !.pc = "returned",
                     !.ret = "VK_ERROR_OUT_OF_HOST_MEMORY"]
      [] fault = "u_vector_init" ->
           [d EXCEPT !.result = "VK_ERROR_OUT_OF_HOST_MEMORY",
                     !.pc = "init_returned"]
      [] fault = "wl_display_create_queue" ->
           wsi_wl_display_init_fail([d EXCEPT !.formats = "LIVE"],
                                    "VK_ERROR_OUT_OF_HOST_MEMORY")
      [] fault = "wl_proxy_create_wrapper" ->
           wsi_wl_display_init_fail(
               [d EXCEPT !.formats = "LIVE", !.queue = "LIVE"],
               "VK_ERROR_OUT_OF_HOST_MEMORY")
      [] fault = "wl_display_get_registry" ->
           wsi_wl_display_init_fail(
               [d EXCEPT !.formats = "LIVE", !.queue = "LIVE",
                         !.wl_display_wrapper = "LIVE"],
               "VK_ERROR_OUT_OF_HOST_MEMORY")
      [] OTHER ->
           [d EXCEPT !.formats = "LIVE", !.queue = "LIVE",
                     !.wl_display_wrapper = "LIVE", !.registry = "LIVE",
                     !.pc = "roundtrip1"]

\* What the display variable's other variables do in SpecDisplay
nonDpVars == <<cur, pend, chain, images, pc, call, now, wire, queue, peer,
               obs, mon, lcVars>>

DpEvent(type, arg) ==
    ev' = [type |-> type, arg |-> arg, was |-> display,
           formats_was |-> display_formats]

\* A caller enters: the allocation of the display and wsi_wl_display_init up
\* to the first round-trip. Only wsi_wl_display_create allocates the struct.
display_init_enter ==
    \E caller \in DisplayCallers, sw \in BOOLEAN, force \in BOOLEAN,
       fault \in DisplayAllocations \cup {NoAllocFault} :
        /\ display.pc = "idle"
        /\ fault = "vk_alloc" => caller = "wsi_wl_display_create"
        /\ display' = DisplayEnter(caller, sw, force, fault)
        /\ display_formats' = << >>
        /\ DpEvent("enter", fault)
        /\ UNCHANGED nonDpVars

\* registry_handle_global, for a global the registry had not announced; the
\* listener stays until the registry is destroyed
registry_handle_global ==
    \E interface \in GlobalInterfaces :
      \E version \in GlobalVersions(interface) :
        /\ display.registry = "LIVE"
        /\ interface \notin display.globals
        /\ display' =
              LET d == [display EXCEPT !.globals = @ \cup {interface}] IN
              IF display.sw
              THEN IF interface = "wl_shm" THEN [d EXCEPT !.wl_shm = "LIVE"]
                   ELSE d
              ELSE IF interface = "zwp_linux_dmabuf_v1" /\ version >= 3
                   THEN [d EXCEPT
                           !.wl_dmabuf = "LIVE", !.advertised = version,
                           !.version = MIN2(version,
                               ZWP_LINUX_DMABUF_V1_GET_DEFAULT_FEEDBACK_SINCE_VERSION)]
                   ELSE d
        /\ DpEvent("global", [interface |-> interface, version |-> version])
        /\ UNCHANGED <<display_formats, nonDpVars>>

\* The first round-trip returns: the test of the bound capabilities, the
\* early exit of a caller that wants no format list, the subscription to the
\* default feedback (lines 806-824)
display_init_roundtrip1_done ==
    /\ display.pc = "roundtrip1"
    /\ display' =
          IF display.wl_dmabuf = "NULL" /\ display.wl_shm = "NULL"
          THEN wsi_wl_display_init_fail_registry(display,
                                                 "VK_ERROR_SURFACE_LOST_KHR")
          ELSE IF ~display.get_format_list
          THEN wsi_wl_display_init_out(display)
          ELSE IF /\ display.wl_dmabuf # "NULL"
                  /\ display.version >=
                        ZWP_LINUX_DMABUF_V1_GET_DEFAULT_FEEDBACK_SINCE_VERSION
          THEN [display EXCEPT !.format_table = NullTable,
                               !.wl_dmabuf_feedback = "LIVE",
                               !.subscriptions = @ + 1, !.subscribed = TRUE,
                               !.pc = "roundtrip2"]
          ELSE [display EXCEPT !.pc = "roundtrip2"]
    /\ DpEvent("roundtrip1_done", 0)
    /\ UNCHANGED <<display_formats, nonDpVars>>

\* The states in which the display's queue is dispatched: the second
\* round-trip and, for a display that was created, its later use
DisplayDispatching == display.pc \in {"roundtrip2", "live"}

\* shm_handle_format
shm_handle_format ==
    \E shm_format \in CatalogShmFormats :
        /\ DisplayDispatching
        /\ display.nev < MaxDisplayEvents
        /\ display.wl_shm = "LIVE"
        /\ display_formats' =
              wsi_wl_display_add_wl_shm_format(display_formats, shm_format)
        /\ display' =
              [display EXCEPT
                  !.nev = @ + 1,
                  !.offered = @ \cup
                      Offered(drm_format_for_wl_shm_format(shm_format))]
        /\ DpEvent("shm_format", shm_format)
        /\ UNCHANGED nonDpVars

\* dmabuf_handle_modifier
dmabuf_handle_modifier ==
    \E drm_format \in CatalogDrmFormats, modifier \in CatalogModifiers :
        /\ DisplayDispatching
        /\ display.nev < MaxDisplayEvents
        /\ display.wl_dmabuf = "LIVE"
        /\ IF display.wl_dmabuf_feedback # "NULL"
           THEN /\ display_formats' = display_formats
                /\ display' = [display EXCEPT !.nev = @ + 1]
           ELSE /\ display_formats' =
                     wsi_wl_display_add_drm_format_modifier(
                         display_formats, drm_format, modifier)
                /\ display' = [display EXCEPT
                                  !.nev = @ + 1,
                                  !.offered = @ \cup Offered(drm_format)]
        /\ DpEvent("modifier", [format |-> drm_format, modifier |-> modifier])
        /\ UNCHANGED nonDpVars

\* default_dmabuf_feedback_format_table: the mapping succeeds or fails
default_dmabuf_feedback_format_table ==
    \E k \in TableIds, mapped \in BOOLEAN :
        /\ display.wl_dmabuf_feedback = "LIVE"
        /\ display.nev < MaxDisplayEvents
        /\ display' =
              [display EXCEPT
                  !.nev = @ + 1,
                  !.format_table = IF mapped THEN MappedTable(k)
                                   ELSE FailedTable,
                  !.tables = @ + 1,
                  !.mappings = IF mapped THEN @ + 1 ELSE @]
        /\ DpEvent("format_table", [tbl |-> k, mapped |-> mapped])
        /\ UNCHANGED <<display_formats, nonDpVars>>

\* The sequences of records the loop over an index array may read
RECURSIVE RecordsRead(_, _)
RecordsRead(table, indices) ==
    IF indices = << >> THEN { << >> }
    ELSE { <<r>> \o rest : r \in ReadRecord(table, Head(indices)),
                           rest \in RecordsRead(table, Tail(indices)) }

\* The insertions of the loop, one per record read
RECURSIVE AddRecords(_, _)
AddRecords(formats, records) ==
    IF records = << >> THEN formats
    ELSE AddRecords(wsi_wl_display_add_drm_format_modifier(
                        formats, Head(records).format, Head(records).modifier),
                    Tail(records))

\* default_dmabuf_feedback_tranche_formats
default_dmabuf_feedback_tranche_formats ==
    \E indices \in IndexArrays :
        /\ display.wl_dmabuf_feedback = "LIVE"
        /\ display.nev < MaxDisplayEvents
        /\ IF display.format_table.data \in {"MAP_FAILED", "NULL"}
           THEN /\ display_formats' = display_formats
                /\ display' = [display EXCEPT !.nev = @ + 1]
           ELSE \E records \in RecordsRead(display.format_table, indices) :
                  /\ display_formats' = AddRecords(display_formats, records)
                  /\ display' =
                        [display EXCEPT
                            !.nev = @ + 1,
                            !.offered = @ \cup UNION
                                { Offered(records[i].format) :
                                    i \in 1..Len(records) }]
        /\ DpEvent("tranche_formats", indices)
        /\ UNCHANGED nonDpVars

\* The events of the default feedback whose handlers are empty
IgnoredFeedbackEvents ==
    {"main_device", "tranche_target_device", "tranche_flags", "tranche_done",
     "done"}

default_dmabuf_feedback_ignored ==
    \E type \in IgnoredFeedbackEvents :
        /\ display.wl_dmabuf_feedback = "LIVE"
        /\ display.nev < MaxDisplayEvents
        /\ display' = [display EXCEPT !.nev = @ + 1]
        /\ DpEvent(type, 0)
        /\ UNCHANGED <<display_formats, nonDpVars>>

\* An event of the default feedback that the peer sent before it saw the
\* destroy request: its proxy is gone, no handler of the display runs
default_dmabuf_feedback_after_destroy ==
    \E type \in IgnoredFeedbackEvents \cup {"format_table", "tranche_formats"} :
        /\ display.pc = "live"
        /\ display.subscribed
        /\ display.nev < MaxDisplayEvents
        /\ display' = [display EXCEPT !.nev = @ + 1]
        /\ DpEvent("late_feedback_event", type)
        /\ UNCHANGED <<display_formats, nonDpVars>>

\* The swap of force_bgra8_unorm_first: the entry of B8G8R8A8_UNORM changes
\* places with the entry u_vector_head yields, the one added last
ForceBgra8UnormFirst(formats) ==
    LET i == find_format(formats, "B8G8R8A8_UNORM")
        h == Len(formats)
    IN IF i = 0 THEN formats
       ELSE [formats EXCEPT ![i] = formats[h], ![h] = formats[i]]

\* The second round-trip returns (lines 827-854)
display_init_roundtrip2_done ==
    /\ display.pc = "roundtrip2"
    /\ display_formats' =
          IF display.force_bgra8_unorm_first
          THEN ForceBgra8UnormFirst(display_formats)
          ELSE display_formats
    /\ display' = wsi_wl_display_init_out(display)
    /\ DpEvent("roundtrip2_done", 0)
    /\ UNCHANGED nonDpVars

\* wsi_wl_display_create after wsi_wl_display_init returned
wsi_wl_display_create_return ==
    /\ display.pc = "init_returned"
    /\ display.caller = "wsi_wl_display_create"
    /\ display' =
          IF display.result # "VK_SUCCESS"
          THEN [display EXCEPT !.struct = "FREED", !.ret = display.result,
                               !.pc = "returned"]
          ELSE [display EXCEPT !.ret = display.result, !.pc = "live"]
    /\ DpEvent("create_return", 0)
    /\ UNCHANGED <<display_formats, nonDpVars>>

\* wsi_wl_display_destroy
wsi_wl_display_destroy ==
    /\ display.pc = "live"
    /\ display' = [wsi_wl_display_finish(display) EXCEPT
                      !.struct = "FREED", !.pc = "returned"]
    /\ display_formats' = << >>
    /\ DpEvent("destroy", 0)
    /\ UNCHANGED nonDpVars

\* vk_outarray_append on an array with room for every element
vk_outarray_append(out, elem) == Append(out, elem)

\* A loop that skips nothing.
AppendEveryFormat(out, formats) ==
    out \o [i \in 1..Len(formats) |->
              [format |-> formats[i].vk_format,
               colorSpace |-> "VK_COLOR_SPACE_SRGB_NONLINEAR_KHR"]]

\* The loop of wsi_wl_surface_get_formats and wsi_wl_surface_get_formats2
\* over display.formats
RECURSIVE AppendSurfaceFormats(_, _)
AppendSurfaceFormats(out, formats) ==
    IF formats = << >> THEN out
    ELSE LET disp_fmt == Head(formats) IN
         IF \/ FlagsOr(disp_fmt.flags, WSI_WL_FMT_ALPHA) # disp_fmt.flags
            \/ FlagsOr(disp_fmt.flags, WSI_WL_FMT_OPAQUE) # disp_fmt.flags
         THEN AppendSurfaceFormats(out, Tail(formats))
         ELSE AppendSurfaceFormats(
                  vk_outarray_append(out,
                      [format |-> disp_fmt.vk_format,
                       colorSpace |-> "VK_COLOR_SPACE_SRGB_NONLINEAR_KHR"]),
                  Tail(formats))

\* wsi_wl_surface_get_formats and wsi_wl_surface_get_formats2 after
\* wsi_wl_display_init returned
wsi_wl_surface_get_formats_return ==
    /\ display.pc = "init_returned"
    /\ display.caller \in {"wsi_wl_surface_get_formats",
                           "wsi_wl_surface_get_formats2"}
    /\ IF display.result # "VK_SUCCESS"
       THEN /\ display' = [display EXCEPT !.ret = "VK_ERROR_SURFACE_LOST_KHR",
                                          !.pc = "returned"]
            /\ display_formats' = display_formats
       ELSE /\ display' =
                 [wsi_wl_display_finish(display) EXCEPT
                     !.out = AppendSurfaceFormats(<< >>, display_formats),
                     !.catalog = display_formats,
                     !.ret = "VK_SUCCESS", !.pc = "returned"]
            /\ display_formats' = << >>
    /\ DpEvent("get_formats_return", 0)
    /\ UNCHANGED nonDpVars

\* wsi_GetPhysicalDeviceWaylandPresentationSupportKHR after
\* wsi_wl_display_init returned
presentation_support_return ==
    /\ display.pc = "init_returned"
    /\ display.caller = "wsi_GetPhysicalDeviceWaylandPresentationSupportKHR"
    /\ IF display.result = "VK_SUCCESS"
       THEN /\ display' = [wsi_wl_display_finish(display) EXCEPT
                              !.ret = "VK_TRUE", !.pc = "returned"]
            /\ display_formats' = << >>
       ELSE /\ display' = [display EXCEPT !.ret = "VK_FALSE",
                                          !.pc = "returned"]
            /\ display_formats' = display_formats
    /\ DpEvent("support_return", 0)
    /\ UNCHANGED nonDpVars

InitDisplay ==
    /\ cur = InitFeedback
    /\ pend = InitFeedback
    /\ display_formats = << >>
    /\ chain = ZeroChain
    /\ images = << >>
    /\ pc = "idle"
    /\ call = << >>
    /\ now = 0
    /\ wire = << >>
    /\ queue = << >>
    /\ peer = << >>
    /\ surface = << >>
    /\ chains = << >>
    /\ display = IdleDisplay
    /\ ev = [type |-> "init", arg |-> 0]
    /\ obs = << >>
    /\ mon = << >>

NextDisplay ==
    \/ display_init_enter
    \/ registry_handle_global
    \/ display_init_roundtrip1_done
    \/ shm_handle_format
    \/ dmabuf_handle_modifier
    \/ default_dmabuf_feedback_format_table
    \/ default_dmabuf_feedback_tranche_formats
    \/ default_dmabuf_feedback_ignored
    \/ default_dmabuf_feedback_after_destroy
    \/ display_init_roundtrip2_done
    \/ wsi_wl_display_create_return
    \/ wsi_wl_display_destroy
    \/ wsi_wl_surface_get_formats_return
    \/ presentation_support_return

SpecDisplay == InitDisplay /\ [][NextDisplay]_vars

(***************************************************************************)
(* The event queues of two display connections on one wl_display           *)
(***************************************************************************)
\* The events the peer sends in one behaviour
MaxQueueEvents == 2

\* Two wsi_wl_displays built on the same wl_display; queue c is the queue
\* display c created, queue 0 the default queue of the wl_display, on which
\* the application's own proxies (its wl_display, its wl_surface) are.
Conns == {1, 2}
DefaultQueue == 0

\* The queue of a proxy that does not exist
NullQueue == -1

\* The variables the queues leave alone
nonQueueVars == <<cur, pend, display_formats, chain, images, pc, call, now,
                  peer, mon, lcVars>>

ProxyKinds == {"wl_display_wrapper", "registry", "capability", "surface",
               "surface_feedback", "pool_or_params", "buffer", "frame"}

\* The proxies that have events
EventKinds == {"registry", "capability", "surface_feedback", "buffer", "frame"}

NoConn == [step |-> "none", sw |-> FALSE, proxies |-> [k \in ProxyKinds |-> NullQueue]]

\* A proxy made by a request on another proxy is on that proxy's queue, and
\* a wrapper is on the queue of the proxy it wraps.
Inherit(factory_queue) == factory_queue

\* A surface wrapper left on the queue of the application's wl_surface.
SurfaceWrapperUnset(c) == Inherit(DefaultQueue)

\* wl_proxy_create_wrapper(base.surface) and wl_proxy_set_queue to the
\* display's queue (lines 1365-1371)
SurfaceWrapperQueue(c) == c

\* Lines 781-803: the queue, the wrapper of the wl_display moved to the
\* queue, the registry got through the wrapper
queues_display_init ==
    \E c \in Conns, sw \in BOOLEAN :
        /\ display[c].step = "none"
        /\ display' =
              [display EXCEPT ![c] =
                  [step |-> "display", sw |-> sw,
                   proxies |-> [NoConn.proxies EXCEPT
                                  !["wl_display_wrapper"] = c,
                                  !["registry"] = Inherit(c)]]]
        /\ ev' = [type |-> "display_init", by |-> c, queue_was |-> queue]
        /\ UNCHANGED <<wire, queue, obs, nonQueueVars>>

\* registry_handle_global: wl_registry_bind on the registry
queues_registry_bind ==
    \E c \in Conns :
        /\ display[c].step = "display"
        /\ display' =
              [display EXCEPT
                  ![c].step = "bound",
                  ![c].proxies["capability"] =
                      Inherit(display[c].proxies["registry"])]
        /\ ev' = [type |-> "bind", by |-> c, queue_was |-> queue]
        /\ UNCHANGED <<wire, queue, obs, nonQueueVars>>

\* wsi_wl_surface_init: the wrapper of the application's wl_surface and,
\* on a dma-buf display that has it, the surface feedback got from wl_dmabuf
queues_surface_init ==
    \E c \in Conns, feedback \in BOOLEAN :
        /\ display[c].step = "bound"
        /\ feedback => ~display[c].sw
        /\ display' =
              [display EXCEPT
                  ![c].step = "surface",
                  ![c].proxies["surface"] = SurfaceWrapperQueue(c),
                  ![c].proxies["surface_feedback"] =
                      IF feedback
                      THEN Inherit(display[c].proxies["capability"])
                      ELSE NullQueue]
        /\ ev' = [type |-> "surface_init", by |-> c, queue_was |-> queue]
        /\ UNCHANGED <<wire, queue, obs, nonQueueVars>>

\* wsi_wl_image_init: the wl_shm_pool got from wl_shm and set to the queue,
\* or the params got from wl_dmabuf, and the wl_buffer got from either
queues_image_init ==
    \E c \in Conns :
        /\ display[c].step = "surface"
        /\ LET made == IF display[c].sw THEN c
                       ELSE Inherit(display[c].proxies["capability"])
           IN display' =
                 [display EXCEPT
                     ![c].step = "images",
                     ![c].proxies["pool_or_params"] = made,
                     ![c].proxies["buffer"] = Inherit(made)]
        /\ ev' = [type |-> "image_init", by |-> c, queue_was |-> queue]
        /\ UNCHANGED <<wire, queue, obs, nonQueueVars>>

\* wsi_wl_swapchain_queue_present under FIFO: wl_surface_frame on the
\* surface wrapper
queues_present ==
    \E c \in Conns :
        /\ display[c].step = "images"
        /\ display[c].proxies["frame"] = NullQueue
        /\ display' =
              [display EXCEPT
                  ![c].proxies["frame"] = Inherit(display[c].proxies["surface"])]
        /\ ev' = [type |-> "present", by |-> c, queue_was |-> queue]
        /\ UNCHANGED <<wire, queue, obs, nonQueueVars>>

\* The peer sends an event to a proxy of a display, or (conn 0) to a proxy
\* of the application; it is in the socket until somebody reads
queues_peer_sends ==
    \E c \in Conns \cup {DefaultQueue}, kind \in EventKinds :
        /\ obs.sent < MaxQueueEvents
        /\ c # DefaultQueue => display[c].proxies[kind] # NullQueue
        /\ c = DefaultQueue => kind = "registry"
        /\ wire' = Append(wire, [conn |-> c, kind |-> kind])
        /\ obs' = [obs EXCEPT !.sent = @ + 1]
        /\ ev' = [type |-> "send", by |-> c, queue_was |-> queue]
        /\ UNCHANGED <<display, queue, nonQueueVars>>

\* The queue of the proxy an event is for
QueueOfEvent(e) ==
    IF e.conn = DefaultQueue THEN DefaultQueue
    ELSE display[e.conn].proxies[e.kind]

\* wl_display_read_events, by a display (the round-trips, the acquire loop,
\* the FIFO wait) or by the application: every event in the socket goes to
\* the queue of its proxy
queues_read_events ==
    \E reader \in Conns \cup {DefaultQueue} :
        /\ wire # << >>
        /\ reader # DefaultQueue => display[reader].step # "none"
        /\ queue' = [q \in Conns \cup {DefaultQueue} |->
                       queue[q] \o SelectSeq(wire, LAMBDA e : QueueOfEvent(e) = q)]
        /\ wire' = << >>
        /\ ev' = [type |-> "read", by |-> reader, queue_was |-> queue]
        /\ UNCHANGED <<display, obs, nonQueueVars>>

\* wl_display_dispatch_queue / wl_display_dispatch_queue_pending on the
\* queue of a display, and the application's dispatch of the default queue:
\* the listeners of the events on that queue run
queues_dispatch ==
    \E by \in Conns \cup {DefaultQueue} :
        /\ queue[by] # << >>
        /\ by # DefaultQueue => display[by].step # "none"
        /\ obs' = [obs EXCEPT
                     !.dispatched = @ \cup
                        { [by |-> by, conn |-> queue[by][i].conn,
                           kind |-> queue[by][i].kind] :
                             i \in 1..Len(queue[by]) }]
        /\ queue' = [queue EXCEPT ![by] = << >>]
        /\ ev' = [type |-> "dispatch", by |-> by, queue_was |-> queue]
        /\ UNCHANGED <<display, wire, nonQueueVars>>

InitQueues ==
    /\ cur = InitFeedback
    /\ pend = InitFeedback
    /\ display_formats = << >>
    /\ chain = ZeroChain
    /\ images = << >>
    /\ pc = "idle"
    /\ call = << >>
    /\ now = 0
    /\ wire = << >>
    /\ queue = [q \in Conns \cup {DefaultQueue} |-> << >>]
    /\ peer = << >>
    /\ surface = << >>
    /\ chains = << >>
    /\ display = [c \in Conns |-> NoConn]
    /\ ev = [type |-> "init", by |-> 0, queue_was |-> << >>]
    /\ obs = [sent |-> 0, dispatched |-> {}]
    /\ mon = << >>

NextQueues ==
    \/ queues_display_init
    \/ queues_registry_bind
    \/ queues_surface_init
    \/ queues_image_init
    \/ queues_present
    \/ queues_peer_sends
    \/ queues_read_events
    \/ queues_dispatch

SpecQueues == InitQueues /\ [][NextQueues]_vars

(***************************************************************************)
(* The buffer format of a swapchain and the formats the peer advertised    *)
(***************************************************************************)
\* DRM formats the peer advertises in one run.
MaxAdverts == 2

\* The DRM formats the switch of wsi_wl_display_add_drm_format_modifier
\* knows (little endian), and one it does not.
AdvertisedDrmFormats ==
    {"RGBA4444", "RGBX4444", "BGRA4444", "BGRX4444", "RGB565", "BGR565",
     "ARGB1555", "XRGB1555", "RGBA5551", "RGBX5551", "BGRA5551", "BGRX5551",
     "ARGB2101010", "XRGB2101010", "ABGR2101010", "XBGR2101010",
     "XBGR8888", "ABGR8888", "XRGB8888", "ARGB8888", "BGRX8888"}

\* The answers of GetPhysicalDeviceFormatProperties: the formats that lack
\* COLOR_ATTACHMENT on the modelled device, and on one that renders to every
\* format.
Devices == {NotRenderable, {}}

\* f->flags & flag
HasFlag(flags, flag) == FlagsOr(flags, flag) = flags

\* The flag a swapchain's compositeAlpha asks of its format (line 1828:
\* alpha is compositeAlpha == PRE_MULTIPLIED).
FlagOfAlpha(alpha) == IF alpha THEN WSI_WL_FMT_ALPHA ELSE WSI_WL_FMT_OPAQUE

\* The (VkFormat, flag) pairs a DRM format inserts.
Inserts(drm_format, vk_format, flag) ==
    \E k \in 1..Len(DrmToVk(drm_format)) :
        /\ DrmToVk(drm_format)[k][1] = vk_format
        /\ HasFlag(DrmToVk(drm_format)[k][2], flag)

nonFormatVars == <<cur, pend, chain, images, pc, call, now, wire, queue, peer,
                   mon, lcVars, dpVars>>

\* dmabuf_handle_modifier (lines 530-547): the peer advertises a DRM format
\* with a modifier, on the display of either device.
formats_dmabuf_handle_modifier ==
    \E drm_format \in AdvertisedDrmFormats :
        /\ obs.n < MaxAdverts
        /\ display_formats' = AddVkListOn(obs.device, display_formats,
                                          DrmToVk(drm_format), "M1")
        /\ obs' = [obs EXCEPT !.n = @ + 1,
                              !.advertised = @ \cup {drm_format}]
        /\ ev' = [type |-> "modifier", arg |-> drm_format]
        /\ UNCHANGED nonFormatVars

\* Lines 1828-1841 of wsi_wl_surface_create_swapchain for a native
\* swapchain: the buffer format follows from imageFormat and compositeAlpha.
\* The application asks for a format of the catalog that has the flag of
\* its compositeAlpha.
formats_create_swapchain ==
    \E i \in 1..Len(display_formats), alpha \in BOOLEAN :
        /\ HasFlag(display_formats[i].flags, FlagOfAlpha(alpha))
        /\ ev' = [type |-> "create_swapchain",
                  arg |-> [vk_format |-> display_formats[i].vk_format,
                           flags |-> display_formats[i].flags,
                           alpha |-> alpha,
                           drm_format |->
                              wl_drm_format_for_vk_format(
                                  display_formats[i].vk_format, alpha)]]
        /\ UNCHANGED <<display_formats, obs, nonFormatVars>>

InitFormats ==
    /\ cur = InitFeedback
    /\ pend = InitFeedback
    /\ display_formats = << >>
    /\ chain = ZeroChain
    /\ images = << >>
    /\ pc = "idle"
    /\ call = << >>
    /\ now = 0
    /\ wire = << >>
    /\ queue = << >>
    /\ peer = << >>
    /\ surface = << >>
    /\ chains = << >>
    /\ display = << >>
    /\ ev = [type |-> "init", arg |-> 0]
    /\ obs \in { [device |-> d, advertised |-> {}, n |-> 0] : d \in Devices }
    /\ mon = << >>

NextFormats ==
    \/ formats_dmabuf_handle_modifier
    \/ formats_create_swapchain

SpecFormats == InitFormats /\ [][NextFormats]_vars

(***************************************************************************)
(* The mappings of the format tables of a surface                          *)
(***************************************************************************)
\* Successful mappings and events of the feedback object in one run.
MaxMappings == 2
MaxTableSteps == 5

\* A format table whose data is the mapping number map of table k.
MappedAs(k, map) == [data |-> "MAPPED", tbl |-> k, map |-> map]

\* dmabuf_feedback_format_table_fini (lines 554-559) on the count of munmap
\* calls of each mapping: a table that is mapped is unmapped.
format_table_fini(unmaps, table) ==
    IF table.data = "MAPPED" THEN [unmaps EXCEPT ![table.map] = @ + 1]
    ELSE unmaps

\* The mappings a feedback state refers to.
MappingsOf(fb) ==
    IF fb.format_table.data = "MAPPED" THEN {fb.format_table.map} ELSE {}

nonTableVars == <<display_formats, images, pc, call, now, wire, queue, peer,
                  mon, lcVars, dpVars>>

\* One more event handled; obs.unmaps[m] counts the munmap calls on mapping m.
TableStep(unmaps) ==
    /\ ~obs.destroyed
    /\ obs.n < MaxTableSteps
    /\ obs' = [obs EXCEPT !.n = @ + 1, !.unmaps = unmaps]

\* surface_dmabuf_feedback_format_table (lines 1159-1171): the result of mmap
\* is stored over whatever the pending feedback held.  The peer may send the
\* event at any point.
tables_format_table ==
    \E k \in TableIds, ok \in BOOLEAN :
        /\ Len(obs.unmaps) < MaxMappings
        /\ pend' = [pend EXCEPT !.format_table =
                       IF ok THEN MappedAs(k, Len(obs.unmaps) + 1)
                       ELSE FailedTable]
        /\ TableStep(IF ok THEN Append(obs.unmaps, 0) ELSE obs.unmaps)
        /\ ev' = [type |-> "format_table", arg |-> IF ok THEN k ELSE -1]
        /\ UNCHANGED <<cur, chain, nonTableVars>>

\* surface_dmabuf_feedback_main_device (lines 1173-1182)
tables_main_device ==
    /\ pend.main_device = 0
    /\ pend' = [pend EXCEPT !.main_device = 1]
    /\ TableStep(obs.unmaps)
    /\ ev' = [type |-> "main_device", arg |-> 1]
    /\ UNCHANGED <<cur, chain, nonTableVars>>

\* surface_dmabuf_feedback_tranche_formats (lines 1207-1237)
tables_tranche_formats ==
    \E indices \in IndexArrays :
      \E st \in TrancheFormatsStates(cur, pend, indices) :
        /\ cur' = st[1]
        /\ pend' = st[2]
        /\ TableStep(obs.unmaps)
        /\ ev' = [type |-> "tranche_formats", arg |-> indices]
        /\ UNCHANGED <<chain, nonTableVars>>

\* surface_dmabuf_feedback_tranche_done (lines 1239-1251)
tables_tranche_done ==
    /\ Len(pend.tranches) < MaxTrancheDone
    /\ pend' = TrancheDoneState(pend)
    /\ TableStep(obs.unmaps)
    /\ ev' = [type |-> "tranche_done", arg |-> 0]
    /\ UNCHANGED <<cur, chain, nonTableVars>>

\* surface_dmabuf_feedback_done (lines 1278-1311): dmabuf_feedback_fini on
\* the committed feedback unmaps its table (line 599) before the pending
\* feedback takes its place.
tables_done ==
    LET st == CommitState(cur, pend)
        c1 == ChainAfterFini(chain)
        f == pick_format_from_surface_dmabuf_feedback(st[1], c1.vk_format)
    IN /\ cur' = st[1]
       /\ pend' = st[2]
       /\ IF f[1] # 0
          THEN \E B \in ReadDrmModifiers(c1) :
                 chain' = MarkSuboptimal(c1,
                     sets_of_modifiers_are_the_same(
                         st[1].tranches[f[1]].formats[f[2]].modifiers, B))
          ELSE chain' = c1
       /\ TableStep(format_table_fini(obs.unmaps, cur.format_table))
       /\ ev' = [type |-> "done", arg |-> 0]
       /\ UNCHANGED nonTableVars

\* wsi_wl_surface_destroy (lines 1130-1134): dmabuf_feedback_fini on the
\* committed and on the pending feedback; no event is handled afterwards.
tables_surface_destroy ==
    /\ ~obs.destroyed
    /\ obs' = [obs EXCEPT !.destroyed = TRUE,
                          !.unmaps = format_table_fini(
                                         format_table_fini(@, cur.format_table),
                                         pend.format_table)]
    /\ cur' = InitFeedback
    /\ pend' = InitFeedback
    /\ ev' = [type |-> "surface_destroy",
              arg |-> [cur |-> cur.format_table, pend |-> pend.format_table]]
    /\ UNCHANGED <<chain, nonTableVars>>

InitTables ==
    /\ cur = InitFeedback
    /\ pend = InitFeedback
    /\ display_formats = << >>
    /\ chain = NewChain(InitFeedback, << >>, "B8G8R8A8_UNORM", FALSE,
                        "MAILBOX", 0)
    /\ images = << >>
    /\ pc = "idle"
    /\ call = << >>
    /\ now = 0
    /\ wire = << >>
    /\ queue = << >>
    /\ peer = << >>
    /\ surface = << >>
    /\ chains = << >>
    /\ display = << >>
    /\ ev = [type |-> "init", arg |-> 0]
    /\ obs = [unmaps |-> << >>, n |-> 0, destroyed |-> FALSE]
    /\ mon = << >>

NextTables ==
    \/ tables_format_table
    \/ tables_main_device
    \/ tables_tranche_formats
    \/ tables_tranche_done
    \/ tables_done
    \/ tables_surface_destroy

SpecTables == InitTables /\ [][NextTables]_vars

(***************************************************************************)
(* Properties of the feedback state machine                                *)
(***************************************************************************)
\* The VkFormats a lookup may be made for.
LookupFormats == {"B8G8R8A8_UNORM", "B8G8R8A8_SRGB", "R5G6B5_UNORM_PACK16"}

\* C1 (feedback atomicity): the main device and the tranche list of the
\* committed feedback change only in the step that processes a done event;
\* in every state the committed tranche list is exactly the list of tranches
\* that tranche_done events closed in the cycle the last done committed, so
\* the tranche being accumulated is never among them; and every entry a
\* lookup through the committed feedback returns belongs to such a closed
\* tranche. (A done that arrives inside a tranche copies the unfinished
\* tranche into the committed feedback's pending_tranche field, which no
\* lookup reads; the format table is not read by a lookup either, and the
\* steal of tranche_formats moves it between the two feedbacks, see C9.)
C1_FeedbackAtomicity ==
    /\ [](/\ cur.tranches = obs.committed
          /\ \A vk \in LookupFormats :
                LET f == pick_format_from_surface_dmabuf_feedback(cur, vk) IN
                f[1] # 0 =>
                    /\ f[1] \in 1..Len(obs.committed)
                    /\ f[2] \in 1..Len(obs.committed[f[1]].formats)
                    /\ obs.committed[f[1]].formats[f[2]].vk_format = vk)
    /\ [][(cur'.tranches # cur.tranches \/ cur'.main_device # cur.main_device)
            => ev'.type = "done"]_vars

\* C1's case: feedback with a tranche has been committed, and a later cycle
\* has accumulated formats in a tranche that is not closed yet, formats the
\* committed feedback does not have.
C1_Witness ==
    /\ obs.ndone > 0
    /\ Len(cur.tranches) > 0
    /\ pick_format_from_surface_dmabuf_feedback(cur, "B8G8R8A8_UNORM")[1] # 0
    /\ pick_format_from_surface_dmabuf_feedback(cur, "R5G6B5_UNORM_PACK16")[1] = 0
    /\ find_format(pend.pending_tranche.formats, "R5G6B5_UNORM_PACK16") # 0

\* The set of modifiers a modifier vector holds.
ModSet(modifiers) == { modifiers[i] : i \in 1..Len(modifiers) }

\* C2 (suboptimal trigger): in a step that processes a done event while a
\* swapchain of format F owns the surface, the committed feedback being
\* valid (it names a main device) and F being in some committed tranche:
\* with S the modifiers of F in the first such tranche and A the modifiers
\* recorded when the swapchain was allocated, S # A makes suboptimal true
\* and S = A leaves a false suboptimal false.
C2_SuboptimalTrigger ==
    [][LET f == pick_format_from_surface_dmabuf_feedback(cur', chain.vk_format)
           S == ModSet(cur'.tranches[f[1]].formats[f[2]].modifiers)
           A == ModSet(chain.drm_modifiers.vals)
       IN (/\ ev'.type = "done"
           /\ chain.vk_format # VK_FORMAT_UNDEFINED
           /\ f[1] # 0)
          => /\ S # A => chain'.suboptimal
             /\ (S = A /\ ~chain.suboptimal) => ~chain'.suboptimal]_vars

\* C2's case: a done has committed feedback that holds the format of the
\* swapchain owning the surface, whose modifier list came from the feedback
\* committed before.
C2_Witness ==
    /\ ev.type = "done"
    /\ chain.vk_format # VK_FORMAT_UNDEFINED
    /\ chain.drm_modifiers.ref = "freed"
    /\ pick_format_from_surface_dmabuf_feedback(cur, chain.vk_format)[1] # 0

\* C9 (table reuse): when the cycle the last done committed received a
\* usable format table and the current cycle has had no format_table event,
\* a tranche_formats event leaves in the pending tranche one of the catalogs
\* that resolving its indices through that earlier table yields, the same
\* as if the table had been sent again, and the pending feedback holds that
\* table afterwards.
C9_TableReuse ==
    [][(/\ ev'.type = "tranche_formats"
        /\ obs.prev_recv # 0
        /\ ~obs.cyc_table)
       => /\ pend'.pending_tranche.formats \in
                ResolveIndices(pend.pending_tranche.formats,
                               MappedTable(obs.prev_recv), ev'.arg)
          /\ pend'.format_table = MappedTable(obs.prev_recv)]_vars

\* C9's case: a tranche_formats event of a cycle without a table, following
\* a committed cycle that received one, has put formats in the pending
\* tranche.
C9_Witness ==
    /\ ev.type = "tranche_formats"
    /\ obs.prev_recv # 0
    /\ ~obs.cyc_table
    /\ obs.ndone > 0
    /\ pend.pending_tranche.formats # << >>

\* C10 (indefinite table reuse): once a usable format table has been
\* received in a cycle that was committed, a tranche_formats event of any
\* later cycle without a format_table event of its own (no fresh table
\* having arrived since) leaves in the pending tranche one of the catalogs
\* that resolving its indices through that most recently received table
\* yields, however many table-less cycles came in between and whatever
\* events they had.
C10_IndefiniteTableReuse ==
    [][(/\ ev'.type = "tranche_formats"
        /\ obs.last_table > 0
        /\ ~obs.cyc_table)
       => pend'.pending_tranche.formats \in
             ResolveIndices(pend.pending_tranche.formats,
                            MappedTable(obs.last_table), ev'.arg)]_vars

\* C10's case: a tranche_formats event in the second table-less cycle after
\* the cycle that received the table.
C10_Witness ==
    /\ ev.type = "tranche_formats"
    /\ obs.last_table > 0
    /\ ~obs.cyc_table
    /\ obs.prev_recv = 0
    /\ obs.ndone >= 2

(***************************************************************************)
(* Properties of the swapchain at run time                                 *)
(***************************************************************************)
\* A step in which acquire returns an image index
AcquiredStep == ev'.type = "acquire_return" /\ ev'.arg.index >= 0

\* C3 (acquire selection) as the claim states it: when acquire returns
\* index i, i is the lowest index not busy at the scan, image i is busy
\* afterwards, and every other image's busy flag is what it was when the
\* call was entered.
C3_AcquireSelectionAsStated ==
    [][AcquiredStep =>
         LET i == ev'.arg.index IN
         /\ ~images[i + 1].busy
         /\ \A j \in 1..i : images[j].busy
         /\ images'[i + 1].busy
         /\ \A j \in 1..Len(images) :
               j # i + 1 => images'[j].busy = call.busy0[j].busy]_vars

\* C3 (acquire selection), amended: when acquire returns index i, i is the
\* lowest index not busy at the scan (so acquire returns no index while all
\* images are busy), image i is busy afterwards, the scan changes no other
\* busy flag, and over the whole call another image's flag differs from its
\* value at entry only by having been cleared by a release notification
\* dispatched inside the call.
C3_AcquireSelection ==
    [][AcquiredStep =>
         LET i == ev'.arg.index IN
         /\ ~images[i + 1].busy
         /\ \A j \in 1..i : images[j].busy
         /\ images'[i + 1].busy
         /\ \A j \in 1..Len(images) :
               j # i + 1 =>
                  /\ images'[j].busy = images[j].busy
                  /\ images'[j].busy =
                        (call.busy0[j].busy /\ (j - 1) \notin call.released)]_vars

\* C3's case: acquire returned image 1 while image 0 was busy and image 2
\* free, after a release notification dispatched inside the call had
\* cleared the flag of another image.
C3_Witness ==
    /\ ev.type = "acquire_return"
    /\ ev.arg.index = 1
    /\ ev.arg.call.released # {}
    /\ Len(images) >= 3
    /\ images[1].busy
    /\ images[2].busy
    /\ ~images[3].busy

\* C4 (image busy lifetime): an image that acquire returned is busy as long
\* as no release notification for it has been dispatched since; a busy flag
\* is cleared only by a step that dispatches the image's release
\* notification; and acquire returns no index that an earlier acquire
\* returned without such a release in between.
C4_BusyLifetime ==
    /\ [](\A i \in mon.acq : images[i + 1].busy)
    /\ [][\A k \in 1..Len(images) :
            (images[k].busy /\ ~images'[k].busy)
               => /\ ev'.type = "dispatch"
                  /\ (k - 1) \in ReleasedBy(ev'.arg)]_vars
    /\ [][AcquiredStep => ev'.arg.index \notin mon.acq]_vars

\* C4's case: image 0 was acquired and presented, the frame callback of
\* that present has been dispatched, no release has, and the image is busy.
C4_Witness ==
    /\ mon.sigs >= 1
    /\ 0 \in mon.acq
    /\ 0 \notin mon.app
    /\ images[1].busy
    /\ ev.type = "dispatch"

\* The positions of the thread inside acquire
AcquirePcs == {"acq_dispatch", "acq_scan", "acq_time", "acq_poll"}

\* C5 (acquire under timeout): the deadline is the clock at entry plus the
\* timeout and does not change during the call; acquire returns NOT_READY
\* only when the clock has passed the deadline and every image is busy at
\* its last scan; a call entered with every image busy in which no release
\* notification is dispatched returns no index (NOT_READY, or OUT_OF_DATE
\* when the connection fails); a scan that finds a free image returns its
\* index, and a call in which a release notification was dispatched returns
\* an index, not NOT_READY, whatever the clock says; and every acquire call
\* returns (the clock advancing and the thread running).
C5_AcquireTimeout ==
    /\ (pc \in AcquirePcs) ~> (pc = "idle")
    /\ [](pc \in AcquirePcs => call.end_time = call.start_time + call.timeout)
    /\ [][(pc \in AcquirePcs /\ pc' \in AcquirePcs)
            => /\ call'.end_time = call.end_time
               /\ call'.start_time = call.start_time
               /\ call'.timeout = call.timeout]_vars
    /\ [][ev'.type = "acquire_return" =>
            /\ ev'.arg.result = "NOT_READY" =>
                  /\ now > call.end_time
                  /\ \A j \in 1..Len(images) : images'[j].busy
                  /\ call.released = {}
            /\ ((\A j \in 1..Len(images) : call.busy0[j].busy)
                   /\ call.released = {})
                  => ev'.arg.result \in {"NOT_READY", "OUT_OF_DATE"}
            /\ call.released # {} => ev'.arg.index >= 0]_vars
    /\ [][(pc = "acq_scan" /\ pc' # pc /\ \E j \in 1..Len(images) : ~images[j].busy)
            => AcquiredStep]_vars

\* C5's case: an acquire with a timeout of 1, entered with every image busy,
\* has waited in ppoll and returned NOT_READY after its deadline.
C5_Witness ==
    /\ ev.type = "acquire_return"
    /\ ev.arg.result = "NOT_READY"
    /\ ev.arg.call.timeout = 1
    /\ ev.arg.call.current_time < ev.arg.call.end_time
    /\ now > ev.arg.call.end_time
    /\ \A j \in 1..Len(images) : images[j].busy

\* C6 (FIFO pacing): under FIFO, fifo_ready is false exactly while the frame
\* callback of the latest committed present has not been dispatched; while
\* a present call waits for it nothing is attached or committed (what the
\* peer holds does not grow); the commit happens only with fifo_ready true,
\* registers a new frame callback and sets fifo_ready to false; and a
\* present call whose wait is over can commit.
C6_FifoPacing ==
    /\ [](chain.present_mode = "FIFO" =>
            /\ mon.commits - mon.sigs \in {0, 1}
            /\ chain.fifo_ready = (mon.commits = mon.sigs)
            /\ chain.frame = ~chain.fifo_ready)
    /\ [](pc = "pres_wait" =>
            \/ chain.present_mode = "FIFO" /\ ~chain.fifo_ready
            \/ ENABLED queue_present_commit)
    /\ [][(pc = "pres_wait" /\ chain.present_mode = "FIFO" /\ ~chain.fifo_ready)
            => /\ peer'.attached = peer.attached
               /\ peer'.held \subseteq peer.held
               /\ ev'.type # "present_commit"]_vars
    /\ [][(chain.present_mode = "FIFO" /\ ev'.type = "present_commit")
            => /\ chain.fifo_ready
               /\ ~chain'.fifo_ready
               /\ chain'.frame
               /\ peer'.frame_pending
               /\ peer'.attached = call.image]_vars

\* C6's case: a second present was called before the first one's frame
\* callback was dispatched, has waited, and its wait has just dispatched
\* the callback: the call is about to proceed.
C6_Witness ==
    /\ pc = "pres_wait"
    /\ chain.present_mode = "FIFO"
    /\ mon.commits = 1
    /\ ev.type = "dispatch"
    /\ FrameDones(ev.arg) = 1
    /\ chain.fifo_ready

\* The swapchain of C7's scenario
FourImagesFifo == chain.image_count = 4 /\ chain.present_mode = "FIFO"

\* C7 (end-to-end FIFO scenario) as the claim states it: after acquire -> 0,
\* present(0), the frame callback dispatched and acquire -> 1, the call
\* present(1) does not commit before a second frame callback has been
\* dispatched.
C7_FifoScenarioAsStated ==
    [][(FourImagesFifo /\ mon.stage = "p1call" /\ ev'.type = "present_commit")
         => mon.sigs >= 2]_vars

\* C7 (end-to-end FIFO scenario), amended: with 4 images under FIFO the
\* first acquire returns image 0 without waiting; present(0) registers a
\* frame callback and leaves fifo_ready false; once that callback has been
\* dispatched (fifo_ready true) the second acquire returns image 1 without
\* waiting; present(1) then finds fifo_ready true and does not wait: its
\* only step is the commit, which registers a new frame callback and sets
\* fifo_ready to false with one callback dispatched in all.
C7_FifoScenario ==
    /\ [](FourImagesFifo =>
            /\ mon.stage \in {"acq1", "acq2"} => pc \in {"acq_dispatch", "acq_scan"}
            /\ mon.stage = "a0" => images[1].busy /\ chain.fifo_ready
            /\ mon.stage = "p0" =>
                  /\ ~chain.fifo_ready
                  /\ chain.frame
                  /\ mon.sigs = 0
                  /\ peer.attached = 0
            /\ mon.stage = "a1" =>
                  /\ chain.fifo_ready
                  /\ ~chain.frame
                  /\ images[2].busy
                  /\ mon.sigs = 1
            /\ mon.stage = "p1call" =>
                  /\ chain.fifo_ready
                  /\ ENABLED queue_present_commit
            /\ mon.stage = "p1" =>
                  /\ ~chain.fifo_ready
                  /\ chain.frame
                  /\ mon.sigs = 1
                  /\ peer.attached = 1)
    /\ [][(FourImagesFifo /\ mon.stage = "acq1" /\ ev'.type = "acquire_return")
            => ev'.arg.index = 0 \/ ev'.arg.result = "OUT_OF_DATE"]_vars
    /\ [][(FourImagesFifo /\ mon.stage = "acq2" /\ mon.sigs = 1
             /\ ev'.type = "acquire_return" /\ call.released = {})
            => ev'.arg.index = 1 \/ ev'.arg.result = "OUT_OF_DATE"]_vars
    /\ [][(FourImagesFifo /\ mon.stage = "p1call" /\ pc' # pc)
            => ev'.type = "present_commit"]_vars

\* C7's case: the scenario has run to its end, present(1) has committed.
C7_Witness ==
    /\ FourImagesFifo
    /\ mon.stage = "p1"
    /\ ev.type = "present_commit"

\* The swapchain of C8's scenario
OneImageFifo == chain.image_count = 1 /\ chain.present_mode = "FIFO"

\* C8 (minimum-count scenario) as the claim states it: with 1 image under
\* FIFO, after acquire and present the image stays busy until its frame
\* callback, so a second acquire that returns before any frame callback has
\* been dispatched returns NOT_READY (unless the connection fails).
C8_OneImageAsStated ==
    [][(OneImageFifo /\ mon.stage = "acq2" /\ ev'.type = "acquire_return"
          /\ ev'.arg.result # "OUT_OF_DATE" /\ mon.sigs = 0)
         => ev'.arg.result = "NOT_READY"]_vars

\* C8 (minimum-count scenario), amended: with 1 image under FIFO, after
\* acquire and present the image stays busy until its release notification
\* is dispatched, whether or not the frame callback has been; the second
\* acquire returns (it does not hang): image 0 if the release of image 0 was
\* dispatched inside the call, otherwise NOT_READY after its deadline, or
\* OUT_OF_DATE when the connection fails.
C8_OneImage ==
    /\ (mon.stage = "acq2") ~> (mon.stage # "acq2")
    /\ [](OneImageFifo /\ mon.stage \in {"p0", "acq2", "nr"} /\ 0 \in mon.acq
            => images[1].busy)
    /\ [][(OneImageFifo /\ mon.stage = "acq2" /\ ev'.type = "acquire_return")
            => \/ ev'.arg.result = "OUT_OF_DATE"
               \/ /\ ev'.arg.result = "NOT_READY"
                  /\ call.released = {}
                  /\ now > call.end_time
                  /\ images'[1].busy
               \/ /\ ev'.arg.index = 0
                  /\ call.released = {0}]_vars

\* C8's case: the second acquire returned NOT_READY although the frame
\* callback of the present had been dispatched.
C8_Witness ==
    /\ OneImageFifo
    /\ mon.stage = "nr"
    /\ mon.sigs = 1
    /\ ev.type = "acquire_return"

\* The events of the surface's feedback object
FeedbackEvents == {"format_table", "main_device", "tranche_target_device",
                   "tranche_flags", "tranche_formats", "tranche_done", "done"}

\* C16 (no implicit recreation): a step that processes a feedback event,
\* the commit of stale parameters included, changes nothing in the swapchain
\* that owns the surface except possibly suboptimal, from false to true:
\* the images and their busy flags, the image count, the format, the
\* recorded modifier list (its length, its storage and what it holds),
\* fifo_ready and the frame callback are what they were.
C16_NoImplicitRecreation ==
    [][ev'.type \in FeedbackEvents =>
         /\ images' = images
         /\ chain' = [chain EXCEPT !.suboptimal = chain'.suboptimal]
         /\ chain.suboptimal => chain'.suboptimal]_vars

\* C16's case: a done has committed feedback whose modifiers for the format
\* of the swapchain differ from those recorded at its allocation, which were
\* taken from the feedback committed before.
C16_Witness ==
    /\ ev.type = "done"
    /\ obs.ndone = 2
    /\ chain.vk_format # VK_FORMAT_UNDEFINED
    /\ chain.num_drm_modifiers > 0
    /\ chain.drm_modifiers.ref # "display"
    /\ LET f == pick_format_from_surface_dmabuf_feedback(cur, chain.vk_format)
       IN /\ f[1] # 0
          /\ ModSet(cur.tranches[f[1]].formats[f[2]].modifiers)
                # ModSet(chain.drm_modifiers.vals)

(***************************************************************************)
(* Properties of the format catalog                                        *)
(***************************************************************************)
\* The entries of a catalog with that VkFormat
EntriesOf(formats, vk) == { i \in 1..Len(formats) : formats[i].vk_format = vk }

\* How many times a modifier occurs in a modifier vector
Occurrences(modifiers, m) ==
    Cardinality({ i \in 1..Len(modifiers) : modifiers[i] = m })

\* The flags a format has in a catalog, 0 when it has no entry
FlagsIn(formats, vk) ==
    IF find_format(formats, vk) = 0 THEN 0
    ELSE formats[find_format(formats, vk)].flags

\* The last two insertions were (F, a, M) then (F, b, M), F renderable,
\* and their allocations succeeded
SamePairTwice ==
    /\ ev.type = "add_vk"
    /\ obs.prev.type = "add_vk"
    /\ ev.arg.memory
    /\ obs.prev.arg.memory
    /\ ev.arg.format = obs.prev.arg.format
    /\ ev.arg.modifier = obs.prev.arg.modifier
    /\ ev.arg.format \notin NotRenderable

\* Every VkFormat occurs in at most one entry of the catalog
UniqueByFormat(formats) ==
    \A i, j \in 1..Len(formats) :
        formats[i].vk_format = formats[j].vk_format => i = j

\* C11 (catalog idempotence) as the claim states it: after inserting
\* (F, a, M) and then (F, b, M), F renderable (and no allocation failing,
\* the reading that favours the claim), the catalog has exactly one
\* entry for F, its flags are the union of a, b and the flags F had before,
\* and M occurs once in its modifier list, for every modifier value M; and
\* every format occurs in at most one entry.
C11_CatalogIdempotenceAsStated ==
    /\ UniqueByFormat(display_formats)
    /\ SamePairTwice =>
          LET F == ev.arg.format
              i == find_format(display_formats, F)
          IN /\ Cardinality(EntriesOf(display_formats, F)) = 1
             /\ display_formats[i].flags =
                   FlagsOr(FlagsOr(obs.prev.arg.flags, ev.arg.flags),
                           FlagsIn(obs.prev.arg.before, F))
             /\ Occurrences(display_formats[i].modifiers, ev.arg.modifier) = 1

\* C11 (catalog idempotence), amended: after inserting (F, a, M) and then
\* (F, b, M), F renderable and the allocations of both insertions
\* succeeding, the catalog has exactly one entry for F, its
\* flags are the union of a, b and the flags F had before, and M occurs once
\* in its modifier list unless M is DRM_FORMAT_MOD_INVALID, which no
\* modifier list ever holds; the second insertion changes nothing but the
\* flags; and after any insertions, failed allocations among them, no
\* modifier occurs twice in a list and every format occurs in at most one
\* entry of the catalog.
C11_CatalogIdempotence ==
    /\ UniqueByFormat(display_formats)
    /\ \A k \in 1..Len(display_formats) :
          /\ Occurrences(display_formats[k].modifiers, DRM_FORMAT_MOD_INVALID) = 0
          /\ \A m \in CatalogModifiers :
                Occurrences(display_formats[k].modifiers, m) <= 1
    /\ SamePairTwice =>
          LET F == ev.arg.format
              M == ev.arg.modifier
              i == find_format(display_formats, F)
          IN /\ Cardinality(EntriesOf(display_formats, F)) = 1
             /\ display_formats[i].flags =
                   FlagsOr(FlagsOr(obs.prev.arg.flags, ev.arg.flags),
                           FlagsIn(obs.prev.arg.before, F))
             /\ Occurrences(display_formats[i].modifiers, M) =
                   (IF M = DRM_FORMAT_MOD_INVALID THEN 0 ELSE 1)
             /\ Len(display_formats) = Len(ev.arg.before)
             /\ display_formats[i].modifiers = ev.arg.before[i].modifiers

\* C11's case: the same (format, modifier) pair was inserted twice with
\* different flags into a catalog that already held another format, and the
\* entry has both flags and the modifier.
C11_Witness ==
    /\ SamePairTwice
    /\ ev.arg.flags # obs.prev.arg.flags
    /\ ev.arg.modifier # DRM_FORMAT_MOD_INVALID
    /\ Len(display_formats) = 2
    /\ FlagsIn(display_formats, ev.arg.format) = AO

(***************************************************************************)
(* Properties of the error paths of acquire and present                    *)
(***************************************************************************)
\* A step in which a connection call of acquire fails
AcquireCallFails ==
    /\ ev'.type \in {"acquire_return", "retry"}
    /\ ev'.arg.failed.step \in AcquireSteps

\* The failures the loop is to retry: a read intent that lost the race to
\* another reader, an interrupted poll
Transient(f) ==
    \/ f.step = "prepare_read" /\ f.errno = "EAGAIN"
    \/ f.step = "ppoll" /\ f.errno \in {"EINTR", "EAGAIN"}

\* C12 (acquire I/O failure): a step of acquire in which a connection call
\* fails (dispatch of pending events, declaring read intent other than by
\* losing to a concurrent reader, the poll other than by an interrupt,
\* reading events) returns OUT_OF_DATE; acquire returns OUT_OF_DATE only in
\* such a step, the failing call being the one the thread was at; and on
\* OUT_OF_DATE the step marks no image busy, no image is busy that was not
\* when the call was entered, and the application holds no new image.
C12_AcquireIoFailure ==
    /\ [][(AcquireCallFails /\ ~Transient(ev'.arg.failed))
            => /\ ev'.type = "acquire_return"
               /\ ev'.arg.result = "OUT_OF_DATE"
               /\ ev'.arg.index = -1
               /\ pc' = "idle"]_vars
    /\ [][(ev'.type = "acquire_return" /\ ev'.arg.result = "OUT_OF_DATE")
            => /\ ev'.arg.failed.step \in AcquireSteps
               /\ ~Transient(ev'.arg.failed)
               /\ ev'.arg.failed.step = "dispatch" => pc = "acq_dispatch"
               /\ ev'.arg.failed.step = "prepare_read" => pc = "acq_time"
               /\ ev'.arg.failed.step \in {"ppoll", "read_events"} => pc = "acq_poll"
               /\ images' = images
               /\ \A j \in 1..Len(images) : images'[j].busy => call.busy0[j].busy
               /\ mon'.app = mon.app]_vars

\* C12's case: an acquire entered with every image busy has waited in ppoll
\* and returned OUT_OF_DATE because reading the events failed.
C12_Witness ==
    /\ ev.type = "acquire_return"
    /\ ev.arg.result = "OUT_OF_DATE"
    /\ ev.arg.failed.step = "read_events"
    /\ ev.arg.call.current_time < ev.arg.call.end_time
    /\ Len(images) >= 2
    /\ \A j \in 1..Len(images) : images[j].busy

\* A step in which present returns
PresentReturnStep == ev'.type \in {"present_commit", "present_fail"}

\* C13 (present I/O failure): a present call in which a connection call
\* fails (the event dispatch while waiting for the previous frame under
\* FIFO, the flush after the commit) returns OUT_OF_DATE, and a present that
\* returns SUCCESS made no connection call that failed.
C13_PresentIoFailure ==
    [][PresentReturnStep =>
         /\ (ev'.arg.dispatch # "none" \/ ev'.arg.flush \notin {"none", "OK"})
               => ev'.arg.result = "OUT_OF_DATE"
         /\ ev'.arg.result = "SUCCESS"
               => ev'.arg.dispatch = "none" /\ ev'.arg.flush = "OK"]_vars

\* C13's case: a present has committed and its flush failed.
C13_Witness ==
    /\ ev.type \in {"present_commit", "present_fail"}
    /\ ev.arg.flush = "EPIPE"

\* C14 (transparent retry): a step in which declaring read intent fails
\* with EAGAIN or the poll fails with EINTR or EAGAIN does not return: the
\* thread goes back to the event dispatch with its deadline, the images and
\* the chain unchanged; no return of acquire carries such a failure; and
\* every return, after retries or not, is an image index, or NOT_READY with
\* the clock past the deadline computed at entry (start + timeout), or
\* OUT_OF_DATE because a connection call failed in another way.
C14_TransparentRetry ==
    /\ [][(AcquireCallFails /\ Transient(ev'.arg.failed))
            => /\ ev'.type = "retry"
               /\ pc' = "acq_dispatch"
               /\ call' = call
               /\ call'.end_time = call.start_time + call.timeout
               /\ images' = images
               /\ chain' = chain
               /\ [mon' EXCEPT !.intent = 0] = [mon EXCEPT !.intent = 0]]_vars
    /\ [][ev'.type = "acquire_return" =>
            /\ ~Transient(ev'.arg.failed)
            /\ \/ /\ ev'.arg.index >= 0
                  /\ ev'.arg.result \in {"SUCCESS", "SUBOPTIMAL"}
               \/ /\ ev'.arg.result = "NOT_READY"
                  /\ now > call.start_time + call.timeout
               \/ /\ ev'.arg.result = "OUT_OF_DATE"
                  /\ ev'.arg.failed.step \in AcquireSteps]_vars

\* C14's case: a call with a timeout, entered with every image busy, had
\* its poll interrupted after the clock had advanced and is back at the
\* event dispatch with the deadline it computed at entry.
C14_Witness ==
    /\ ev.type = "retry"
    /\ ev.arg.failed = [step |-> "ppoll", errno |-> "EINTR"]
    /\ pc = "acq_dispatch"
    /\ call.timeout = 1
    /\ now > call.start_time
    /\ call.end_time = call.start_time + call.timeout
    /\ \A j \in 1..Len(images) : images[j].busy

\* C14's second case: a call has lost its read intent to another reader,
\* whose events it goes back to dispatch.
C14_WitnessReadIntent ==
    /\ ev.type = "retry"
    /\ ev.arg.failed = [step |-> "prepare_read", errno |-> "EAGAIN"]
    /\ pc = "acq_dispatch"
    /\ queue # << >>

(***************************************************************************)
(* Properties of the swapchain under feedback                              *)
(***************************************************************************)
\* C15 (sticky suboptimal): no step (of acquire, present, a release, a
\* frame callback, a feedback commit) takes the suboptimal flag of the
\* swapchain from true to false; the flag changes only in the step that
\* processes a done event; and an acquire that returns an index returns it
\* with SUBOPTIMAL when the flag is true and with SUCCESS when it is false.
C15_StickySuboptimal ==
    /\ [][chain.suboptimal => chain'.suboptimal]_vars
    /\ [][chain'.suboptimal # chain.suboptimal => ev'.type = "done"]_vars
    /\ [][AcquiredStep =>
            ev'.arg.result = IF chain.suboptimal THEN "SUBOPTIMAL"
                             ELSE "SUCCESS"]_vars

\* C15's case: a commit made the swapchain suboptimal, a later commit
\* offered the modifiers the swapchain was allocated with again, and an
\* acquire after it has returned an image with SUBOPTIMAL.
C15_Witness ==
    /\ ev.type = "acquire_return"
    /\ ev.arg.result = "SUBOPTIMAL"
    /\ obs.ndone = 2
    /\ LET f == pick_format_from_surface_dmabuf_feedback(cur, chain.vk_format)
       IN /\ f[1] # 0
          /\ ModSet(cur.tranches[f[1]].formats[f[2]].modifiers)
                = ModSet(chain.drm_modifiers.vals)

(***************************************************************************)
(* Properties of swapchain creation and destruction                        *)
(***************************************************************************)
\* The live swapchains whose back-reference names the surface.
Holders == { c \in Live : chains[c].wsi_wl_surface }

\* C17: after any sequence of create_swapchain and destroy calls on the
\* surface, whether or not a create named the prior swapchain as
\* oldSwapchain, at most one live swapchain holds a back-reference to the
\* surface, the surface refers to a live swapchain exactly when that
\* swapchain refers to the surface, and destroying a swapchain that has been
\* replaced leaves the surface's reference to the newer swapchain alone.
C17_SurfaceOwnership ==
    /\ Cardinality(Holders) <= 1
    /\ \A c \in Live : (surface.chain = c) <=> chains[c].wsi_wl_surface
    /\ (ev.type = "destroy" /\ ev.arg.before.chain \notin {0, ev.arg.chain})
          => surface.chain = ev.arg.before.chain

\* A swapchain was created with oldSwapchain = VK_NULL_HANDLE while another
\* one owned the surface, and the older one has then been destroyed: the
\* surface has lost its reference to the newer one, which is still live and
\* still refers to the surface.
C17_Witness ==
    /\ ev.type = "destroy"
    /\ ev.arg.before.chain \in Live
    /\ ev.arg.before.chain # ev.arg.chain
    /\ chains[ev.arg.before.chain].wsi_wl_surface
    /\ surface.chain = 0

\* The positions of a call in a sequence of calls.
At(log, op, image) ==
    { i \in 1..Len(log) : log[i] = Release(op, image) }

Times(log, op, image) == Cardinality(At(log, op, image))

\* Every occurrence of the first call comes before every one of the second.
Precedes(log, op1, image1, op2, image2) ==
    \A i \in At(log, op1, image1) : \A j \in At(log, op2, image2) : i < j

ImageReleaseOps == {"wl_buffer_destroy", "wsi_destroy_image", "close", "munmap"}

\* The release that undoes an acquisition.
ReleasesOf(op) ==
    CASE op = "wsi_create_image" -> {"wsi_destroy_image"}
      [] op = "wl_buffer" -> {"wl_buffer_destroy"}
      [] op = "wsi_wl_alloc_image_shm" -> {"close", "munmap"}

\* Everything in made is released once in log, and nothing else of an image
\* is released.
ReleasedExactlyOnce(made, log) ==
    /\ \A i \in 1..Len(made) : \A op \in ReleasesOf(made[i].op) :
          Times(log, op, made[i].image) = 1
    /\ \A i \in 1..Len(log) :
          log[i].op \in ImageReleaseOps
            => \E j \in 1..Len(made) :
                 /\ made[j].image = log[i].image
                 /\ log[i].op \in ReleasesOf(made[j].op)

\* C18: destroying a swapchain releases every created image (the presentable
\* handle destroyed, the backing resource destroyed, a host-visible region
\* unmapped and its descriptor closed, each exactly once) before the
\* outstanding frame callback and the swapchain wrapper are released; and if
\* the swapchain still holds its surface, the surface's reference to it is
\* cleared before the wrapper is freed.
C18_TeardownOrder ==
    ev.type = "destroy" =>
      LET log == ev.arg.log
          was == ev.arg.was
      IN /\ ReleasedExactlyOnce(ev.arg.made, log)
         /\ \A k \in 0..(was.image_count - 1) :
               /\ Times(log, "wl_buffer_destroy", k) = 1
               /\ Times(log, "wsi_destroy_image", k) = 1
               /\ \A op \in {"close", "munmap"} :
                     Times(log, op, k)
                       = (IF was.buffer_type = "NATIVE" THEN 0 ELSE 1)
               /\ \A op \in ImageReleaseOps :
                     /\ Precedes(log, op, k, "wl_callback_destroy", 0)
                     /\ Precedes(log, op, k, "wsi_swapchain_finish", 0)
                     /\ Precedes(log, op, k, "vk_free", 0)
         /\ Times(log, "wl_callback_destroy", 0) = (IF was.frame THEN 1 ELSE 0)
         /\ Times(log, "vk_free", 0) = 1
         /\ log[Len(log)] = Release("vk_free", 0)
         /\ chains[ev.arg.chain].state = "freed"
         /\ was.wsi_wl_surface =>
               /\ Times(log, "surface_chain_NULL", 0) = 1
               /\ Precedes(log, "surface_chain_NULL", 0, "vk_free", 0)
               /\ surface.chain # ev.arg.chain

\* A swapchain of two shared-memory images that owned the surface and had a
\* frame callback outstanding has been destroyed.
C18_Witness ==
    /\ ev.type = "destroy"
    /\ ev.arg.was.image_count = 2
    /\ ev.arg.was.buffer_type = "SHM_MEMCPY"
    /\ ev.arg.was.frame
    /\ ev.arg.was.wsi_wl_surface
    /\ ev.arg.before.chain = ev.arg.chain
    /\ surface.chain = 0

\* The steps of create_swapchain after the allocation of the wrapper.
UnwindingSteps == { CreateSteps[s] : s \in 2..7 }

\* C19: when create_swapchain fails at any step (surface initialization,
\* base swapchain initialization, or initialization of image k), then on
\* return every image and host-visible region created so far has been
\* released exactly once, the swapchain wrapper is freed, and the surface
\* holds no reference to the failed swapchain.
C19_CreateUnwinding ==
    (ev.type = "create" /\ ev.arg.fault.step \in UnwindingSteps) =>
      /\ ev.arg.result # "SUCCESS"
      /\ ReleasedExactlyOnce(ev.arg.made, ev.arg.log)
      /\ Times(ev.arg.log, "vk_free", 0) = 1
      /\ chains[ev.arg.chain].state = "freed"
      /\ surface.chain # ev.arg.chain

\* A create has failed in wsi_swapchain_init: the wrapper is freed and the
\* surface still points to it.
C19_Witness ==
    /\ ev.type = "create"
    /\ ev.arg.fault.step = "wsi_swapchain_init"
    /\ ev.arg.result # "SUCCESS"
    /\ chains[ev.arg.chain].state = "freed"
    /\ surface.chain = ev.arg.chain

\* The steps of wsi_wl_surface_init that come after the display connection
\* was created.
AfterDisplaySteps == {"wl_proxy_create_wrapper", "bind_to_dmabuf_feedback"}

\* The surface has what a successful wsi_wl_surface_init gives it.
SurfaceInitialized ==
    /\ surface.display # "NULL"
    /\ surface.surface
    /\ surface.display = "FEEDBACK" => surface.wl_dmabuf_feedback

\* C20: when surface initialization fails after its display connection was
\* created (the creation of the surface proxy or the feedback subscription
\* fails), what was created is destroyed before the error is returned, so
\* that a later create_swapchain on the same surface attempts initialization
\* again and never reports success on a surface that lacks its surface proxy
\* or its feedback subscription.
C20_SurfaceInitUnwinding ==
    /\ (ev.type = "create" /\ ev.arg.fault.step \in AfterDisplaySteps) =>
          /\ ev.arg.result # "SUCCESS"
          /\ surface.display = "NULL"
          /\ ~surface.surface
          /\ ~surface.wl_dmabuf_feedback
    /\ (ev.type = "create" /\ ev.arg.result = "SUCCESS") => SurfaceInitialized

\* After a failed initialization a create on the same surface has reported
\* success: the display connection of the failed attempt is still there and
\* the surface has no proxy.
C20_Witness ==
    /\ ev.type = "create"
    /\ ev.arg.result = "SUCCESS"
    /\ ev.arg.before.display # "NULL"
    /\ ~ev.arg.before.surface
    /\ ~surface.surface
    /\ surface.chain = ev.arg.chain

\* The same with the proxy made and the feedback subscription missing.
C20_WitnessNoSubscription ==
    /\ ev.type = "create"
    /\ ev.arg.result = "SUCCESS"
    /\ surface.display = "FEEDBACK"
    /\ surface.surface
    /\ ~surface.wl_dmabuf_feedback

(***************************************************************************)
(* Properties of the format table                                          *)
(***************************************************************************)
\* The number of records of the table a feedback holds (size / record size).
TableRecords(fb) == Len(TableData[fb.format_table.tbl])

\* C22 (format table bounds): for every tranche_formats event, a record of
\* the table is read only for an index that lies within the installed
\* table (index * record size + record size <= size); an index outside it
\* is never dereferenced.
C22_FormatTableBounds ==
    ev.type = "tranche_formats" =>
      \A i \in 1..Len(ev.read) : ev.read[i] < TableRecords(pend)

\* A tranche_formats event carried an index past the end of the mapped
\* table, the handler read through it, and what the read returned is in the
\* pending tranche's catalog.
C22_Witness ==
    /\ ev.type = "tranche_formats"
    /\ pend.format_table.data = "MAPPED"
    /\ \E i \in 1..Len(ev.read) : ev.read[i] >= TableRecords(pend)
    /\ pend.pending_tranche.formats # << >>

\* The table a tranche_formats event will resolve its indices through: the
\* pending feedback's own if the cycle had a format_table event, else the
\* committed feedback's.
TableInReach ==
    IF pend.format_table.data = "NULL" THEN cur.format_table
    ELSE pend.format_table

\* C23 (an absent table is a no-op): when no usable format table exists
\* (none was ever advertised, or the mapping of the advertised region failed,
\* or for any other reason the table in reach is not a mapping), a
\* tranche_formats event leaves the pending tranche and the closed tranches
\* as they were and reads nothing; formats are recorded only when a usable
\* table exists.
C23_AbsentTableNoOp ==
    [][ev'.type = "tranche_formats" =>
         /\ (\/ obs.last_table = 0
             \/ (obs.cyc_table /\ obs.last_table = -1)
             \/ TableInReach.data # "MAPPED")
              => /\ pend'.pending_tranche = pend.pending_tranche
                 /\ pend'.tranches = pend.tranches
                 /\ cur'.tranches = cur.tranches
                 /\ ev'.read = << >>
         /\ pend'.pending_tranche.formats # pend.pending_tranche.formats
              => TableInReach.data = "MAPPED"]_vars

\* A cycle after a committed one has had a format_table event whose mapping
\* failed, and its tranche_formats event has recorded nothing.
C23_Witness ==
    /\ ev.type = "tranche_formats"
    /\ obs.cyc_table
    /\ obs.last_table = -1
    /\ obs.ndone > 0
    /\ Len(cur.tranches) > 0
    /\ pend.pending_tranche.formats = << >>

\* The same with no table ever advertised.
C23_WitnessNeverAdvertised ==
    /\ ev.type = "tranche_formats"
    /\ obs.last_table = 0
    /\ obs.ndone > 0
    /\ pend.pending_tranche.formats = << >>

(***************************************************************************)
(* Properties of the commit                                                *)
(***************************************************************************)
\* C24 (commit content): the tranche a tranche_done closes holds the target
\* device, the flags and the formats accumulated since the tranche_done (or
\* done) before it and nothing older; when done is processed the committed
\* tranche list is exactly the sequence of the tranches closed in that
\* cycle, in the order of arrival, none dropped; and what was accumulated
\* after the last tranche_done is in no committed tranche and is gone from
\* the pending feedback, so that the next cycle's first tranche starts
\* empty.
C24_CommitContent ==
    /\ [](/\ pend.tranches = obs.closed
          /\ obs.tstage = "start" => pend.pending_tranche = EmptyTranche
          /\ obs.tstage # "formats" => pend.pending_tranche.formats = << >>)
    /\ [][ev'.type = "tranche_done" =>
            /\ pend'.tranches = Append(pend.tranches, pend.pending_tranche)
            /\ pend.pending_tranche.target_device = 1
            /\ pend.pending_tranche.flags = 1
            /\ pend'.pending_tranche = EmptyTranche]_vars
    /\ [][ev'.type = "done" =>
            /\ cur'.tranches = obs.closed
            /\ cur'.tranches = pend.tranches
            /\ pend' = InitFeedback
            /\ obs'.closed = << >>]_vars

\* A done has committed a cycle in which one tranche was closed and a second
\* one, with formats, was still open: the committed list has the first one
\* only, and the pending feedback is empty again.
C24_Witness ==
    /\ ev.type = "done"
    /\ Len(cur.tranches) = 1
    /\ cur.tranches[1].formats # << >>
    /\ cur.pending_tranche.formats # << >>
    /\ pend = InitFeedback

\* A second cycle has closed its first tranche without a tranche_formats
\* event, after a first cycle that ended with formats in an open tranche:
\* the closed tranche is empty.
C24_WitnessNextCycle ==
    /\ ev.type = "tranche_done"
    /\ obs.ndone = 1
    /\ cur.pending_tranche.formats # << >>
    /\ Len(pend.tranches) = 1
    /\ pend.tranches[1].formats = << >>

(***************************************************************************)
(* Properties of the modifier lists                                        *)
(***************************************************************************)
NoDuplicates(modifiers) ==
    \A i, j \in 1..Len(modifiers) : modifiers[i] = modifiers[j] => i = j

\* C30 (catalog modifier invariant): in every catalog reachable by any
\* sequence of insertions (of a VkFormat or a DRM format with a modifier, of
\* a wl_shm format), no entry's modifier list holds DRM_FORMAT_MOD_INVALID,
\* no modifier occurs twice in one entry, and an entry whose format was only
\* ever offered without a real modifier, as the shared-memory path offers
\* it, has an empty modifier list.
C30_ModifierInvariant ==
    \A k \in 1..Len(display_formats) :
      LET f == display_formats[k] IN
      /\ \A i \in 1..Len(f.modifiers) : f.modifiers[i] # DRM_FORMAT_MOD_INVALID
      /\ NoDuplicates(f.modifiers)
      /\ f.vk_format \notin obs.real => f.modifiers = << >>

\* A wl_shm format has been inserted over an entry that had a modifier, with
\* another entry learned from wl_shm alone: the first still has its one
\* modifier, the second has none.
C30_Witness ==
    /\ ev.type = "add_shm"
    /\ \E k \in 1..Len(display_formats) :
          /\ display_formats[k].vk_format \in VkFormatsOf(
                 drm_format_for_wl_shm_format(ev.arg.format))
          /\ Len(display_formats[k].modifiers) = 1
          /\ ev.arg.before[k].modifiers = display_formats[k].modifiers
    /\ \E k \in 1..Len(display_formats) :
          /\ display_formats[k].vk_format \notin obs.real
          /\ display_formats[k].modifiers = << >>

(***************************************************************************)
(* Properties of the display connection                                    *)
(***************************************************************************)
\* The capability of the display's mode is bound: wl_shm in software mode,
\* zwp_linux_dmabuf_v1 announced at version 3 or more otherwise.
CapabilityBound(d) ==
    IF d.sw THEN d.wl_shm = "LIVE" /\ "wl_shm" \in d.globals
    ELSE /\ d.wl_dmabuf = "LIVE"
         /\ "zwp_linux_dmabuf_v1" \in d.globals
         /\ d.advertised >= 3

\* C25 (capability discovery): when the first round-trip of
\* wsi_wl_display_init has returned, the initialisation goes on (and may
\* succeed) exactly if the capability of its mode was bound during that
\* round-trip; otherwise nothing is bound, the result is
\* VK_ERROR_SURFACE_LOST_KHR and the registry, the wrapper of the wl_display,
\* the event queue and the catalog have been destroyed. A display whose
\* initialisation returned VK_SUCCESS has the capability of its mode.
C25_CapabilityDiscovery ==
    /\ (display.pc = "init_returned" /\ display.result = "VK_SUCCESS")
          => CapabilityBound(display)
    /\ ev.type = "roundtrip1_done" =>
          IF CapabilityBound(ev.was)
          THEN \/ display.pc = "roundtrip2"
               \/ display.pc = "init_returned" /\ display.result = "VK_SUCCESS"
          ELSE /\ ev.was.wl_shm = "NULL" /\ ev.was.wl_dmabuf = "NULL"
               /\ display.pc = "init_returned"
               /\ display.result = "VK_ERROR_SURFACE_LOST_KHR"
               /\ display.registry = "DESTROYED"
               /\ display.wl_display_wrapper = "DESTROYED"
               /\ display.queue = "DESTROYED"
               /\ display.formats = "FINISHED"
               /\ display.wl_shm = "NULL" /\ display.wl_dmabuf = "NULL"
               /\ display.wl_dmabuf_feedback = "NULL"

\* The dma-buf global was announced at version 2 to a hardware display: it
\* was not bound and the initialisation failed.
C25_Witness ==
    /\ ev.type = "roundtrip1_done"
    /\ ~display.sw
    /\ "zwp_linux_dmabuf_v1" \in display.globals
    /\ display.result = "VK_ERROR_SURFACE_LOST_KHR"
    /\ display.queue = "DESTROYED"

\* A software display succeeded with wl_shm bound; the dma-buf global had
\* been announced as well.
C25_WitnessSoftware ==
    /\ display.pc = "init_returned"
    /\ display.result = "VK_SUCCESS"
    /\ display.sw
    /\ display.globals = GlobalInterfaces
    /\ display.wl_dmabuf = "NULL"

\* C26 (connection-wide feedback is sampled once): the default feedback is
\* subscribed to only by an initialisation that was asked for the format
\* list and bound zwp_linux_dmabuf_v1 at a version that has it; whenever
\* wsi_wl_display_init has returned VK_SUCCESS no subscription is left and
\* no mapping of a format table of the display is left mapped; and an event
\* of that feedback arriving later changes nothing of the catalog.
C26_DefaultFeedbackSampledOnce ==
    /\ display.subscribed =>
          /\ display.get_format_list
          /\ display.wl_dmabuf # "NULL"
          /\ display.version >=
                ZWP_LINUX_DMABUF_V1_GET_DEFAULT_FEEDBACK_SINCE_VERSION
    /\ (display.result = "VK_SUCCESS" /\ display.pc \in {"init_returned", "live"})
          => /\ display.wl_dmabuf_feedback = "NULL"
             /\ display.subscriptions = 0
             /\ display.mappings = 0
    /\ ev.type = "late_feedback_event" => display_formats = ev.formats_was

\* The initialisation returned VK_SUCCESS after two format_table events of
\* the default feedback were mapped: the first mapping was never unmapped.
C26_Witness ==
    /\ display.pc = "init_returned"
    /\ display.result = "VK_SUCCESS"
    /\ display.subscribed
    /\ display.wl_dmabuf_feedback = "NULL"
    /\ display.tables = 2
    /\ display.format_table.data = "MAPPED"
    /\ display.mappings = 1

\* C21 (VK_ERROR_OUT_OF_HOST_MEMORY propagation): when an allocation made
\* while a display is built fails (the struct, the catalog vector, the event
\* queue, the wrapper of the wl_display, the registry), wsi_wl_display_init
\* returns VK_ERROR_OUT_OF_HOST_MEMORY without starting a round-trip, and
\* every caller that returns a VkResult (wsi_wl_display_create, and the
\* format enumerations on their temporary display) returns that same result.
C21_OutOfMemoryPropagation ==
    display.fault # NoAllocFault =>
       /\ display.pc \in {"init_returned", "returned"}
       /\ display.globals = {}
       /\ display.queue # "LIVE"
       /\ display.pc = "init_returned"
             => display.result = "VK_ERROR_OUT_OF_HOST_MEMORY"
       /\ (/\ display.pc = "returned"
           /\ display.caller #
                 "wsi_GetPhysicalDeviceWaylandPresentationSupportKHR")
             => display.ret = "VK_ERROR_OUT_OF_HOST_MEMORY"

\* The event queue of the temporary display of wsi_wl_surface_get_formats
\* could not be allocated and the enumeration returned
\* VK_ERROR_SURFACE_LOST_KHR.
C21_Witness ==
    /\ display.pc = "returned"
    /\ display.caller = "wsi_wl_surface_get_formats"
    /\ display.fault = "wl_display_create_queue"
    /\ display.result = "VK_ERROR_OUT_OF_HOST_MEMORY"
    /\ display.ret = "VK_ERROR_SURFACE_LOST_KHR"

\* The flags every insertion of the initialisation offered for a VkFormat
OfferedFlags(vk_format) ==
    { p[2] : p \in { q \in display.offered : q[1] = vk_format } }

\* The formats the enumeration returned
Returned == { display.out[j].format : j \in 1..Len(display.out) }

\* C29 (format enumeration filter): when wsi_wl_surface_get_formats or
\* wsi_wl_surface_get_formats2 returns VK_SUCCESS, the list it returns is
\* the list of the catalog entries whose flags hold both WSI_WL_FMT_ALPHA
\* and WSI_WL_FMT_OPAQUE, in the order of the catalog, each with the sRGB
\* non-linear colour space and no format twice; a format that the peer
\* offered with only one of the two flags is not returned.
C29_EnumerationFilter ==
    (ev.type = "get_formats_return" /\ display.ret = "VK_SUCCESS") =>
       LET cat == display.catalog
           out == display.out
           both == { i \in 1..Len(cat) : cat[i].flags = AO }
           nth(j) == CHOOSE i \in both :
                        Cardinality({ k \in both : k < i }) = j - 1
       IN /\ Len(out) = Cardinality(both)
          /\ \A j \in 1..Len(out) :
                /\ out[j].format = cat[nth(j)].vk_format
                /\ out[j].colorSpace = "VK_COLOR_SPACE_SRGB_NONLINEAR_KHR"
          /\ \A j, k \in 1..Len(out) : out[j].format = out[k].format => j = k
          /\ \A p \in display.offered :
                (\/ OfferedFlags(p[1]) = {WSI_WL_FMT_ALPHA}
                 \/ OfferedFlags(p[1]) = {WSI_WL_FMT_OPAQUE})
                   => p[1] \notin Returned

\* The enumeration returned a format and skipped a catalog entry that has
\* only one of the two flags.
C29_Witness ==
    /\ ev.type = "get_formats_return"
    /\ display.ret = "VK_SUCCESS"
    /\ Len(display.out) >= 1
    /\ \E i \in 1..Len(display.catalog) :
          /\ display.catalog[i].flags # AO
          /\ display.catalog[i].vk_format \notin Returned

\* The enumeration returned B8G8R8A8_UNORM, whose two flags came from two
\* events (ARGB8888 and XRGB8888).
C29_WitnessAccumulated ==
    /\ ev.type = "get_formats_return"
    /\ "B8G8R8A8_UNORM" \in Returned
    /\ OfferedFlags("B8G8R8A8_UNORM") = {WSI_WL_FMT_ALPHA, WSI_WL_FMT_OPAQUE}

(***************************************************************************)
(* Properties of a present                                                 *)
(***************************************************************************)
\* The places of an operation in the requests of the present just returned
PlacesOf(op) ==
    { i \in 1..Len(ev.arg.requests) : ev.arg.requests[i].op = op }

\* The operation was made once, on the image presented
MadeOnce(op) ==
    /\ Cardinality(PlacesOf(op)) = 1
    /\ \A i \in PlacesOf(op) : ev.arg.requests[i].image = ev.arg.index

\* Every a was made before every b
MadeBefore(a, b) == \A i \in PlacesOf(a), j \in PlacesOf(b) : i < j

\* C27 (present sequence): a present that returns VK_SUCCESS has issued, for
\* the image presented and once each, attach, then damage, then (under FIFO
\* only) the frame request followed by fifo_ready = false, then commit, then
\* flush; it set the image's busy flag before the commit; and for the
\* SHM_MEMCPY buffer type, and only for it, it copied the pixels into the
\* shared-memory region before the attach. On return the image is busy and,
\* under FIFO, fifo_ready is false and a frame callback is outstanding.
C27_PresentSequence ==
    ev.type = "present_commit" =>
       /\ MadeOnce("attach") /\ MadeOnce("damage")
       /\ MadeOnce("commit") /\ MadeOnce("flush")
       /\ MadeBefore("attach", "damage")
       /\ MadeBefore("damage", "commit")
       /\ MadeBefore("commit", "flush")
       /\ IF chain.present_mode = "FIFO"
          THEN /\ MadeOnce("frame") /\ MadeOnce("fifo_ready = false")
               /\ MadeBefore("damage", "frame")
               /\ MadeBefore("frame", "fifo_ready = false")
               /\ MadeBefore("fifo_ready = false", "commit")
               /\ ~chain.fifo_ready
               /\ chain.frame
          ELSE PlacesOf("frame") = {} /\ PlacesOf("fifo_ready = false") = {}
       /\ MadeOnce("busy = true")
       /\ MadeBefore("busy = true", "commit")
       /\ images[ev.arg.index + 1].busy
       /\ IF chain.buffer_type = "SHM_MEMCPY"
          THEN MadeOnce("memcpy") /\ MadeBefore("memcpy", "attach")
          ELSE PlacesOf("memcpy") = {}

\* A FIFO present of a memcpy-fallback image returned VK_SUCCESS after it
\* had to wait for the frame callback of the present before it.
C27_Witness ==
    /\ ev.type = "present_commit"
    /\ chain.present_mode = "FIFO"
    /\ chain.buffer_type = "SHM_MEMCPY"
    /\ mon.commits = 2
    /\ Len(ev.arg.requests) = 8

\* A MAILBOX present of a native image: five steps, no frame request.
C27_WitnessMailbox ==
    /\ ev.type = "present_commit"
    /\ chain.present_mode = "MAILBOX"
    /\ chain.buffer_type = "NATIVE"
    /\ Len(ev.arg.requests) = 5

(***************************************************************************)
(* Properties of the event queues                                          *)
(***************************************************************************)
\* C28 (private queue isolation): every proxy a display creates (the
\* wrapper of the wl_display, the registry, the capability it binds, the
\* surface wrapper, the surface feedback, the pool or params, the buffers,
\* the frame callbacks) is on the queue of that display; so with two
\* displays on one wl_display, reading the socket puts every event on the
\* queue of the display whose proxy it is for, a dispatch by one display
\* runs listeners only for its own proxies and leaves the other queues as
\* they were, and no event for a display's proxy is dispatched by the other
\* display or by the application.
C28_QueueIsolation ==
    /\ \A c \in Conns, k \in ProxyKinds :
          display[c].proxies[k] \in {NullQueue, c}
    /\ \A q \in Conns \cup {DefaultQueue} :
          \A i \in 1..Len(queue[q]) : queue[q][i].conn = q
    /\ \A d \in obs.dispatched : d.by = d.conn
    /\ ev.type = "dispatch" =>
          \A q \in (Conns \cup {DefaultQueue}) \ {ev.by} :
             queue[q] = ev.queue_was[q]

\* Display 1 has dispatched the frame callback of its present while an event
\* for a proxy of display 2, read from the socket in the same read, stays on
\* the queue of display 2.
C28_Witness ==
    /\ ev.type = "dispatch"
    /\ ev.by = 1
    /\ [by |-> 1, conn |-> 1, kind |-> "frame"] \in obs.dispatched
    /\ queue[2] # << >>
    /\ queue[2][1].conn = 2

(***************************************************************************)
(* Further properties of acquire                                           *)
(***************************************************************************)
\* C31 (acquire termination): every call of acquire returns, the clock
\* advancing and the thread running, whatever the peer does and however
\* often a read is raced or a poll interrupted. The thread enters ppoll only
\* from the deadline test of the same iteration, with the deadline not yet
\* passed, so the timeout it gives ppoll (end_time - current_time) is never
\* negative and ends at the deadline; with nothing to read, ppoll can return
\* as soon as the deadline is reached; and a deadline test made after the
\* deadline returns VK_NOT_READY.
C31_AcquireTermination ==
    /\ (pc \in AcquirePcs) ~> (pc = "idle" /\ ev.type = "acquire_return")
    /\ [](pc = "acq_poll" =>
            /\ call.start_time <= call.current_time
            /\ call.current_time <= call.end_time
            /\ call.current_time <= now
            /\ (wire = << >> /\ now >= call.end_time)
                  => ENABLED acquire_ppoll_timeout)
    /\ [][(pc' = "acq_poll" /\ pc # "acq_poll")
            => /\ pc = "acq_time"
               /\ now <= call.end_time
               /\ call'.current_time = now]_vars
    /\ [][(pc = "acq_time" /\ now > call.end_time /\ pc' # pc)
            => /\ ev'.type = "acquire_return"
               /\ ev'.arg.result = "NOT_READY"
               /\ pc' = "idle"]_vars

\* An acquire with a timeout of 0, entered with every image busy, has polled
\* with a timeout of zero at its deadline and returned VK_NOT_READY once the
\* clock had moved on.
C31_Witness ==
    /\ ev.type = "acquire_return"
    /\ ev.arg.result = "NOT_READY"
    /\ ev.arg.call.timeout = 0
    /\ ev.arg.call.current_time = ev.arg.call.end_time
    /\ now > ev.arg.call.end_time
    /\ \A j \in 1..Len(images) : images[j].busy

\* C32: in wsi_wl_swapchain_acquire_next_image the thread holds at most one
\* prepared read, and holds it exactly while it waits in ppoll: it holds
\* none when the call dispatches the queue, tests the deadline and prepares a
\* read, or has returned (with any result).  A read is prepared only by a
\* successful wl_display_prepare_read_queue, and each prepared read is ended
\* by one wl_display_read_events (successful or failed) or one
\* wl_display_cancel_read (ppoll timed out, was interrupted or failed).
C32_ReadIntentDiscipline ==
    /\ [](mon.intent \in {0, 1})
    /\ [](mon.intent = 1 <=> pc = "acq_poll")
    /\ [][mon'.intent > mon.intent
            => /\ mon'.intent = mon.intent + 1
               /\ ev'.type = "prepare_read" /\ ev'.arg = "OK"
               /\ pc = "acq_time" /\ pc' = "acq_poll"]_vars
    /\ [][mon'.intent < mon.intent
            => /\ mon'.intent = mon.intent - 1
               /\ pc = "acq_poll"
               /\ \/ ev'.type = "read_events" /\ pc' = "acq_dispatch"
                  \/ /\ ev'.type = "ppoll" /\ ev'.arg = "TIMEOUT"
                     /\ pc' = "acq_dispatch"
                  \/ /\ ev'.type = "retry" /\ ev'.arg.failed.step = "ppoll"
                     /\ pc' = "acq_dispatch"
                  \/ /\ ev'.type = "acquire_return"
                     /\ ev'.arg.failed.step \in {"ppoll", "read_events"}
                     /\ ev'.arg.result = "OUT_OF_DATE"
                     /\ pc' = "idle"]_vars
    /\ [][(pc = "acq_poll" /\ pc' # pc) => mon'.intent = 0]_vars

C32_Witness ==
    /\ ev.type = "acquire_return" /\ ev.arg.result = "OUT_OF_DATE"
    /\ ev.arg.failed.step = "read_events"
    /\ pc = "idle" /\ mon.intent = 0

C32_WitnessInterrupted ==
    /\ ev.type = "retry" /\ ev.arg.failed.step = "ppoll"
    /\ ev.arg.failed.errno = "EINTR"
    /\ pc = "acq_dispatch" /\ mon.intent = 0

(***************************************************************************)
(* The storage behind the recorded modifier list                           *)
(***************************************************************************)
\* C33 (recorded modifier list validity): while a swapchain exists, the
\* modifier list it recorded at creation points into live storage (the
\* committed surface feedback's or the display catalog's) that still holds
\* what was recorded, and the list a done event compares the newly
\* committed feedback with is exactly the recorded one.
C33_RecordedListValid ==
    /\ [](chain.vk_format # VK_FORMAT_UNDEFINED
            => /\ chain.drm_modifiers.ref \in {"NULL", "display", "feedback"}
               /\ ReadDrmModifiers(chain) = { chain.drm_modifiers.vals })
    /\ [][(ev'.type = "done" /\ chain.vk_format # VK_FORMAT_UNDEFINED)
            => /\ chain'.drm_modifiers = chain.drm_modifiers
               /\ chain'.num_drm_modifiers = chain.num_drm_modifiers]_vars

\* C33's case: a done event has been handled for a surface whose swapchain
\* recorded a non-empty list out of the feedback committed before it; the
\* handler released that feedback's vectors before it compared.
C33_Witness ==
    /\ ev.type = "done"
    /\ chain.vk_format # VK_FORMAT_UNDEFINED
    /\ chain.num_drm_modifiers > 0
    /\ chain.drm_modifiers.ref = "freed"
    /\ Cardinality(ReadDrmModifiers(chain)) > 1

\* A swapchain that recorded the display catalog's list keeps it through
\* done events.
C33_CatalogListKept ==
    [](chain.drm_modifiers.ref = "display"
         => ReadDrmModifiers(chain) = { chain.drm_modifiers.vals })

C33_WitnessCatalog ==
    /\ ev.type = "done"
    /\ chain.drm_modifiers.ref = "display"
    /\ chain.num_drm_modifiers > 0

(***************************************************************************)
(* Calls on a swapchain that has been replaced                             *)
(***************************************************************************)
\* C34 (replaced swapchain stays operable): every acquire and present on a
\* live swapchain, one named as oldSwapchain by a later create included,
\* finds a surface and a display through the swapchain's back-reference.
C34_ReplacedSwapchainOperable ==
    (ev.type \in {"acquire", "present"} /\ ev.arg.chain \in Live)
       => /\ ev.arg.was.wsi_wl_surface
          /\ ev.arg.result # "NULL_DEREFERENCE"
          /\ surface.display # "NULL"

\* C34's case: acquire was called on a live swapchain after a create that
\* named it as oldSwapchain succeeded; the newer swapchain owns the surface.
C34_Witness ==
    /\ ev.type = "acquire"
    /\ ev.arg.chain \in Live
    /\ ~chains[ev.arg.chain].wsi_wl_surface
    /\ ev.arg.result = "NULL_DEREFERENCE"
    /\ surface.chain \in Live
    /\ surface.chain > ev.arg.chain

\* A swapchain that owns the surface has a surface and a display to work
\* with.
C34_OwnerOperable ==
    (ev.type \in {"acquire", "present"} /\ ev.arg.was.wsi_wl_surface)
       => /\ ev.arg.result = "SUCCESS"
          /\ surface.display # "NULL"

C34_WitnessOwner ==
    /\ ev.type = "present" /\ ev.arg.was.wsi_wl_surface
    /\ \E c \in Live : ~chains[c].wsi_wl_surface

(***************************************************************************)
(* The frame callback and fifo_ready                                       *)
(***************************************************************************)
\* The requests for a frame callback among the requests of a present.
FrameRequests(requests) ==
    { i \in 1..Len(requests) : requests[i].op = "frame" }

\* C35 (frame-signal invariant): a swapchain holds a frame callback
\* (chain->frame) exactly when fifo_ready is false, and at most one callback
\* is outstanding: a present asks for one only with none held, and only one.
\* Under MAILBOX fifo_ready is always true, no present asks for a frame
\* callback, none is pending at the compositor or dispatched, and a present
\* call never waits: it commits in its first step.
C35_FrameSignalInvariant ==
    /\ [](chain.frame = ~chain.fifo_ready)
    /\ [](chain.present_mode = "FIFO" =>
            /\ mon.commits - mon.sigs \in {0, 1}
            /\ chain.frame = (mon.commits - mon.sigs = 1))
    /\ [][ev'.type = "present_commit"
            => /\ Cardinality(FrameRequests(ev'.arg.requests)) <= 1
               /\ FrameRequests(ev'.arg.requests) # {}
                    => ~chain.frame /\ chain.fifo_ready /\ chain'.frame]_vars
    /\ [](chain.present_mode = "MAILBOX" =>
            /\ chain.fifo_ready
            /\ ~chain.frame
            /\ ~peer.frame_pending
            /\ mon.sigs = 0
            /\ ~FifoMustWait(chain)
            /\ pc = "pres_wait" => ENABLED queue_present_commit)
    /\ [][(chain.present_mode = "MAILBOX" /\ pc = "pres_wait")
            => /\ ev'.type # "dispatch"
               /\ pc' # pc => /\ ev'.type = "present_commit"
                              /\ ev'.arg.result = "SUCCESS"
                              /\ FrameRequests(ev'.arg.requests) = {}]_vars

\* C35's case under FIFO: a present has committed and holds its frame
\* callback after an earlier one was dispatched.
C35_Witness ==
    /\ chain.present_mode = "FIFO"
    /\ ev.type = "present_commit"
    /\ chain.frame /\ ~chain.fifo_ready
    /\ mon.commits = 2 /\ mon.sigs = 1

\* C35's case under MAILBOX: a second present has committed while the
\* compositor still holds the first one's buffer.
C35_WitnessMailbox ==
    /\ chain.present_mode = "MAILBOX"
    /\ ev.type = "present_commit"
    /\ mon.commits = 2
    /\ Cardinality(peer.held) = 2
    /\ chain.fifo_ready /\ ~chain.frame

(***************************************************************************)
(* Recreation after a suboptimal swapchain                                 *)
(***************************************************************************)
\* C36 (recreation converges): for a swapchain of format F created while
\* the committed feedback held F, a done event that commits feedback whose
\* first tranche with F gives F the same set of modifiers as the feedback
\* at creation did leaves a false suboptimal false, whether or not the
\* device supports modifiers and whether or not the set is empty.
C36_RecreationConverges ==
    [][LET f == pick_format_from_surface_dmabuf_feedback(cur', chain.vk_format)
       IN (/\ ev'.type = "done"
           /\ chain.vk_format # VK_FORMAT_UNDEFINED
           /\ obs.alloc.found
           /\ f[1] # 0
           /\ ModSet(cur'.tranches[f[1]].formats[f[2]].modifiers)
                 = ModSet(obs.alloc.modifiers)
           /\ ~chain.suboptimal)
          => ~chain'.suboptimal]_vars

\* C36's case: a swapchain created for a device without modifier support
\* while the feedback held its format with modifiers; a done has committed
\* feedback with the same modifiers for the format, and suboptimal is set.
C36_Witness ==
    LET f == pick_format_from_surface_dmabuf_feedback(cur, chain.vk_format)
    IN /\ ev.type = "done"
       /\ chain.vk_format # VK_FORMAT_UNDEFINED
       /\ chain.drm_modifiers.ref = "NULL"
       /\ chain.num_drm_modifiers = 0
       /\ obs.alloc.found
       /\ obs.alloc.modifiers # << >>
       /\ f[1] # 0
       /\ cur.tranches[f[1]].formats[f[2]].modifiers = obs.alloc.modifiers
       /\ chain.suboptimal

(***************************************************************************)
(* Properties of the buffer format                                         *)
(***************************************************************************)
\* C37 (format mapping round trip): the DRM format a swapchain announces
\* for a VkFormat of the catalog, with the flag of its compositeAlpha, is a
\* DRM format that inserts that VkFormat with that flag.
C37_FormatRoundTrip ==
    ev.type = "create_swapchain" =>
        Inserts(ev.arg.drm_format, ev.arg.vk_format, FlagOfAlpha(ev.arg.alpha))

\* C37's case: the peer advertised XRGB8888 and not BGRX8888, the device
\* renders to B8G8R8_UNORM, the catalog offers it for both alpha modes, and
\* a swapchain of that format has been given its buffer format.
C37_Witness ==
    /\ ev.type = "create_swapchain"
    /\ ev.arg.vk_format = "B8G8R8_UNORM"
    /\ ev.arg.flags = AO
    /\ ev.arg.drm_format = "BGRX8888"
    /\ "XRGB8888" \in obs.advertised
    /\ "BGRX8888" \notin obs.advertised
    /\ DrmToVk("BGRX8888") = << >>

\* For every other VkFormat of the catalog the round trip holds.
C37_RoundTripElsewhere ==
    (ev.type = "create_swapchain"
       /\ ev.arg.vk_format \notin {"B8G8R8_UNORM", "B8G8R8_SRGB"})
      => Inserts(ev.arg.drm_format, ev.arg.vk_format,
                 FlagOfAlpha(ev.arg.alpha))

C37_WitnessElsewhere ==
    /\ ev.type = "create_swapchain"
    /\ ev.arg.vk_format = "R8G8B8A8_UNORM"
    /\ ev.arg.flags = AO
    /\ ev.arg.alpha
    /\ ev.arg.drm_format = "ABGR8888"

(***************************************************************************)
(* Properties of the format table mappings                                 *)
(***************************************************************************)
\* C38 (format table single ownership): a mapping is referred to by at most
\* one of the committed and the pending feedback; no mapping is unmapped
\* twice or while a feedback still refers to it; and once the surface has
\* been destroyed every mapping that succeeded has been unmapped once.
C38_TableSingleOwnership ==
    /\ MappingsOf(cur) \cap MappingsOf(pend) = {}
    /\ \A m \in 1..Len(obs.unmaps) : obs.unmaps[m] <= 1
    /\ \A m \in MappingsOf(cur) \cup MappingsOf(pend) : obs.unmaps[m] = 0
    /\ obs.destroyed => \A m \in 1..Len(obs.unmaps) : obs.unmaps[m] = 1

\* C38's case: the surface has been destroyed after two tables were mapped;
\* the first one was never unmapped.
C38_Witness ==
    /\ ev.type = "surface_destroy"
    /\ obs.destroyed
    /\ Len(obs.unmaps) = 2
    /\ obs.unmaps[1] = 0
    /\ obs.unmaps[2] = 1

\* No mapping is shared, unmapped twice, or unmapped while referred to.
C38_NoDoubleUnmap ==
    /\ MappingsOf(cur) \cap MappingsOf(pend) = {}
    /\ \A m \in 1..Len(obs.unmaps) : obs.unmaps[m] <= 1
    /\ \A m \in MappingsOf(cur) \cup MappingsOf(pend) : obs.unmaps[m] = 0

\* A table that moved from the committed to the pending feedback and back
\* through a commit has been unmapped once by the destruction.
C38_WitnessReuse ==
    /\ ev.type = "surface_destroy"
    /\ ev.arg.cur.data = "MAPPED"
    /\ obs.n >= 3
    /\ Len(obs.unmaps) = 1
    /\ obs.unmaps[1] = 1

(***************************************************************************)
(* Properties of the comparison of modifier lists                          *)
(***************************************************************************)
\* C39 (modifier-set comparison): whenever a done event compares the
\* committed feedback's list for the swapchain's format with the list the
\* swapchain recorded, both lists are free of duplicates, and the result of
\* sets_of_modifiers_are_the_same is true exactly when the two lists hold
\* the same set of modifiers, whatever their order.
C39_ModifierSetComparison ==
    [][LET f == pick_format_from_surface_dmabuf_feedback(cur', chain.vk_format)
           S == cur'.tranches[f[1]].formats[f[2]].modifiers
       IN (/\ ev'.type = "done"
           /\ chain.vk_format # VK_FORMAT_UNDEFINED
           /\ f[1] # 0)
          => /\ NoDuplicates(S)
             /\ \A B \in ReadDrmModifiers(ChainAfterFini(chain)) :
                  /\ NoDuplicates(B)
                  /\ sets_of_modifiers_are_the_same(S, B)
                        <=> ModSet(S) = ModSet(B)]_vars

\* C39's case: a done event has compared the committed list with a recorded
\* list of two modifiers that was taken from the feedback committed before;
\* what is read through the recorded pointer may hold one modifier twice.
C39_Witness ==
    LET f == pick_format_from_surface_dmabuf_feedback(cur, chain.vk_format)
    IN /\ ev.type = "done"
       /\ f[1] # 0
       /\ chain.num_drm_modifiers = 2
       /\ \E B \in ReadDrmModifiers(chain) : ~NoDuplicates(B)

\* On lists free of duplicates, in any order and of any length the model
\* produces, the comparison is set equality; the committed list is always
\* free of duplicates.
C39_ComparisonOnDuplicateFree ==
    [][LET f == pick_format_from_surface_dmabuf_feedback(cur', chain.vk_format)
           S == cur'.tranches[f[1]].formats[f[2]].modifiers
       IN (/\ ev'.type = "done"
           /\ chain.vk_format # VK_FORMAT_UNDEFINED
           /\ f[1] # 0)
          => /\ NoDuplicates(S)
             /\ \A B \in ReadDrmModifiers(ChainAfterFini(chain)) :
                  NoDuplicates(B)
                    => (sets_of_modifiers_are_the_same(S, B)
                          <=> ModSet(S) = ModSet(B))]_vars

\* A comparison of two lists holding the same two modifiers in different
\* orders.
C39_WitnessReordered ==
    LET f == pick_format_from_surface_dmabuf_feedback(cur, chain.vk_format)
    IN /\ ev.type = "done"
       /\ f[1] # 0
       /\ cur.tranches[f[1]].formats[f[2]].modifiers = <<"M2", "M1">>
       /\ <<"M1", "M2">> \in ReadDrmModifiers(chain)

(***************************************************************************)
(* Properties of feedback without a main device                            *)
(***************************************************************************)
\* The VkFormats of the tranches of a feedback.
TrancheFormats(fb) ==
    UNION { { fb.tranches[t].formats[k].vk_format :
                k \in 1..Len(fb.tranches[t].formats) } :
            t \in 1..Len(fb.tranches) }

\* C40 (feedback without a main device is invalid): while the committed
\* feedback has main_device = 0, the lookup of any format in it finds
\* nothing, whatever its tranches hold; the done event that commits such
\* feedback leaves suboptimal as it was; and a swapchain created meanwhile
\* records the display catalog's modifier list for its format, or none,
\* never a list of the feedback.
C40_NoMainDeviceInvalid ==
    /\ [](cur.main_device = 0 =>
            \A v \in TrancheFormats(cur) \cup AppFormats :
               pick_format_from_surface_dmabuf_feedback(cur, v) = <<0, 0>>)
    /\ [][(ev'.type = "done" /\ cur'.main_device = 0)
            => chain'.suboptimal = chain.suboptimal]_vars
    /\ [][(ev'.type = "create_swapchain" /\ cur.main_device = 0)
            => LET d == find_format(display_formats, ev'.arg)
               IN /\ chain'.drm_modifiers.ref # "feedback"
                  /\ chain'.drm_modifiers.ref = "display"
                       => /\ d # 0
                          /\ chain'.drm_modifiers.vals
                                = display_formats[d].modifiers
                  /\ chain'.num_drm_modifiers
                        = Len(chain'.drm_modifiers.vals)
                  /\ ~chain'.suboptimal]_vars

\* C40's case: the committed cycle had tranches holding the swapchain's
\* format with modifiers but no main_device event; the done that committed
\* it has been handled.
C40_Witness ==
    /\ ev.type = "done"
    /\ cur.main_device = 0
    /\ chain.vk_format \in TrancheFormats(cur)
    /\ PickIgnoringMainDevice(cur, chain.vk_format) # <<0, 0>>
    /\ ~chain.suboptimal

\* A swapchain was created over such feedback and recorded the catalog's
\* list.
C40_WitnessCreate ==
    /\ ev.type = "create_swapchain"
    /\ cur.main_device = 0
    /\ chain.vk_format \in TrancheFormats(cur)
    /\ chain.drm_modifiers.ref = "display"
    /\ chain.num_drm_modifiers > 0

====
